---- MODULE Spec2Model ----
(***************************************************************************)
(* A model of src/src/transaction/transaction.js: the Transaction          *)
(* aggregate (inputs, outputs, fee and change maintenance, the             *)
(* serialization checks, verify() and the sorters).                        *)
(*                                                                         *)
(* Representation.                                                         *)
(*   - A JavaScript value that may be undefined is a sequence of length 0  *)
(*     (undefined) or 1 (the value): None, Some(v), Val(o).                *)
(*   - A Buffer is a sequence of bytes (0..255).                           *)
(*   - An unsigned 32-bit number (outputIndex, sequenceNumber) is the pair *)
(*     <<high 16 bits, low 16 bits>>.                                      *)
(*   - A satoshi amount is the pair <<hi, lo>> standing for hi*10^9 + lo   *)
(*     (the BN the Output keeps); Num gives its Number.                    *)
(*   - An object identity (=== on Input and Output objects) is the field   *)
(*     id: two records are the same object iff their ids are equal.        *)
(*   - A call that throws leaves the fields as the code left them at the   *)
(*     throw.  last is the last call: its name, its error and what it      *)
(*     returned, and the inputs that carried a signature when it was made; *)
(*     calls counts the calls made.                                        *)
(***************************************************************************)
EXTENDS Integers, Sequences, FiniteSets, TLC

VARIABLES tx, last, calls

vars == <<tx, last, calls>>

(***************************************************************************)
(* Bounds of the model.                                                    *)
(***************************************************************************)
MaxInputs == 2
MaxOutputs == 3
MaxCalls == 4

(***************************************************************************)
(* Program constants.                                                      *)
(***************************************************************************)
CURRENT_VERSION == 1
DEFAULT_NLOCKTIME == 0
MAX_BLOCK_SIZE == 1000000
DUST_AMOUNT == 546
FEE_SECURITY_MARGIN == 150
FEE_PER_KB == 100000
NLOCKTIME_BLOCKHEIGHT_LIMIT == 500000000
CHANGE_OUTPUT_MAX_SIZE == 20 + 4 + 34 + 4
MAXIMUM_EXTRA_SIZE == 4 + 9 + 9 + 4

(***************************************************************************)
(* JavaScript values.                                                      *)
(***************************************************************************)
None == <<>>
Some(v) == <<v>>
Val(o) == o[1]

NoError == "none"

Ret(t, v) == [tx |-> t, val |-> v, err |-> NoError]
Throw(t, e) == [tx |-> t, val |-> 0, err |-> e]

\* r, and if it did not throw, what follows it
Then(r, F(_)) == IF r.err # NoError THEN r ELSE F(r)

SetMin(S) == CHOOSE x \in S : \A y \in S : x <= y

\* Math.ceil(a / b) for b > 0
CeilDiv(a, b) == -((-a) \div b)

(***************************************************************************)
(* Numbers wider than the checker's integers.                              *)
(***************************************************************************)
Limb == 10 ^ 9

\* the Number of a BN that fits
Num(bn) == bn[1] * Limb + bn[2]

\* BN.fromNumber
BNFromNumber(n) == <<n \div Limb, n % Limb>>

BNAdd(a, b) == <<a[1] + b[1] + ((a[2] + b[2]) \div Limb), (a[2] + b[2]) % Limb>>

BNGt(a, b) == a[1] > b[1] \/ (a[1] = b[1] /\ a[2] > b[2])

\* 21000000 * 1e8
MAX_MONEY == <<2100000, 0>>

\* Number.MAX_SAFE_INTEGER, 2^53 - 1
MAX_SAFE_INTEGER == <<9007199, 254740991>>

\* unsigned 32-bit numbers as <<high half, low half>>
U32(n) == <<n \div 65536, n % 65536>>

U32Lt(a, b) == a[1] < b[1] \/ (a[1] = b[1] /\ a[2] < b[2])

\* the sign of a - b
U32Cmp(a, b) == IF U32Lt(a, b) THEN -1 ELSE IF U32Lt(b, a) THEN 1 ELSE 0

\* 0xffffffff
MAXINT == <<65535, 65535>>

(***************************************************************************)
(* Buffers and scripts.                                                    *)
(***************************************************************************)
Bytes(n, b) == [i \in 1..n |-> b]

RECURSIVE BufferCompare(_, _)
\* Buffer.compare: -1, 0 or 1, bytewise, a proper prefix first
BufferCompare(a, b) ==
    IF a = <<>> /\ b = <<>> THEN 0
    ELSE IF a = <<>> THEN -1
    ELSE IF b = <<>> THEN 1
    ELSE IF Head(a) < Head(b) THEN -1
    ELSE IF Head(a) > Head(b) THEN 1
    ELSE BufferCompare(Tail(a), Tail(b))

OP_DUP == 118
OP_HASH160 == 169
OP_EQUALVERIFY == 136
OP_CHECKSIG == 172
OP_CHECKMULTISIG == 174
OP_1 == 81
OP_EQUAL == 135
OP_RETURN == 106

\* Script.buildPublicKeyHashOut: OP_DUP OP_HASH160 <20 bytes> OP_EQUALVERIFY OP_CHECKSIG
PublicKeyHashOut(h) == <<OP_DUP, OP_HASH160, 20>> \o Bytes(20, h) \o <<OP_EQUALVERIFY, OP_CHECKSIG>>

\* Script.buildScriptHashOut: OP_HASH160 <20 bytes> OP_EQUAL
ScriptHashOut(h) == <<OP_HASH160, 20>> \o Bytes(20, h) \o <<OP_EQUAL>>

\* Script.buildDataOut: OP_RETURN <data>
DataOut(data) == <<OP_RETURN, Len(data)>> \o data

\* Script.fromAddress / Script(new Address(address))
ScriptFromAddress(a) ==
    IF a.type = "pubkeyhash" THEN PublicKeyHashOut(a.hash) ELSE ScriptHashOut(a.hash)

\* Script.prototype.isDataOut
IsDataOut(script) == Len(script) >= 1 /\ script[1] = OP_RETURN

(***************************************************************************)
(* Outputs and inputs (the collaborators' objects).                        *)
(***************************************************************************)
\* new Output({script, satoshis})
Output(id, script, satoshis) == [id |-> id, script |-> script, bn |-> BNFromNumber(satoshis)]

\* Output.prototype.satoshis
Satoshis(o) == Num(o.bn)

\* Output.prototype.invalidSatoshis
InvalidSatoshis(o) == BNGt(o.bn, MAX_SAFE_INTEGER) \/ o.bn[1] < 0

\* the all-zero previous transaction id
NullTxId == Bytes(32, 0)

\* Input.prototype.isNull
IsNull(i) == i.prevTxId = NullTxId /\ i.outputIndex = MAXINT

\* clearSignatures of the classes that sign (the unlock script is emptied); the one
\* of the base class throws
ClearInputSignatures(i) == [i EXCEPT !.signed = FALSE, !.scriptLength = 0]

\* the bytes of BufferWriter.writeVarintNum(n)
VarintSize(n) == IF n < 253 THEN 1 ELSE IF n < 65536 THEN 3 ELSE 5

\* the bytes of Input.prototype.toBufferWriter: prevTxId, outputIndex, the unlock
\* script with its length, sequenceNumber
InputBufferLength(i) == 32 + 4 + VarintSize(i.scriptLength) + i.scriptLength + 4

\* PublicKeyHashInput.SCRIPT_MAX_SIZE
PUBLIC_KEY_HASH_SCRIPT_MAX_SIZE == 73 + 34

\* Input.prototype._estimateSize and PublicKeyHashInput.prototype._estimateSize
InputEstimateSize(i) ==
    IF i.kind = "PublicKeyHash" THEN PUBLIC_KEY_HASH_SCRIPT_MAX_SIZE ELSE InputBufferLength(i)

(***************************************************************************)
(* The transaction: amounts, fee and change.                               *)
(***************************************************************************)
RECURSIVE SumSatoshis(_)
SumSatoshis(outs) ==
    IF outs = <<>> THEN 0 ELSE Satoshis(Head(outs)) + SumSatoshis(Tail(outs))

RECURSIVE SumInputs(_)
SumInputs(ins) ==
    IF ins = <<>> THEN 0 ELSE Satoshis(Val(Head(ins).output)) + SumInputs(Tail(ins))

\* Transaction.prototype._getOutputAmount
GetOutputAmount(t) ==
    IF t._outputAmount = None
    THEN LET s == SumSatoshis(t.outputs)
         IN Ret([t EXCEPT !._outputAmount = Some(s)], s)
    ELSE Ret(t, Val(t._outputAmount))

\* Transaction.prototype._getInputAmount: the cache is set to 0 first and grows
\* input by input, so a throw leaves the partial sum cached
GetInputAmount(t) ==
    IF t._inputAmount = None
    THEN LET missing == {k \in 1..Len(t.inputs) : t.inputs[k].output = None}
             stop == IF missing = {} THEN Len(t.inputs) + 1 ELSE SetMin(missing)
             s == SumInputs(SubSeq(t.inputs, 1, stop - 1))
             t2 == [t EXCEPT !._inputAmount = Some(s)]
         IN IF missing = {} THEN Ret(t2, s) ELSE Throw(t2, "MissingPreviousOutput")
    ELSE Ret(t, Val(t._inputAmount))

\* Transaction.prototype._getUnspentValue
GetUnspentValue(t) ==
    Then(GetInputAmount(t), LAMBDA a :
         Then(GetOutputAmount(a.tx), LAMBDA b : Ret(b.tx, a.val - b.val)))

\* Transaction.prototype.isCoinbase
IsCoinbase(t) == Len(t.inputs) = 1 /\ IsNull(t.inputs[1])

\* Transaction.prototype._clearSignatures: input by input, up to the first input of
\* the base class, whose clearSignatures throws; an object the list holds twice is
\* cleared wherever it stands
ClearSignatures(t) ==
    LET base == {k \in 1..Len(t.inputs) : t.inputs[k].kind = "Input"}
        stop == IF base = {} THEN Len(t.inputs) + 1 ELSE SetMin(base)
        cleared == {t.inputs[k].id : k \in 1..(stop - 1)}
        t2 == [t EXCEPT !.inputs = [k \in 1..Len(t.inputs) |->
                                       IF t.inputs[k].id \in cleared
                                       THEN ClearInputSignatures(t.inputs[k])
                                       ELSE t.inputs[k]]]
    IN IF base = {} THEN Ret(t2, 0) ELSE Throw(t2, "AbstractMethodInvoked")

\* Transaction._estimateFee (the static one)
StaticEstimateFee(size, amountAvailable, feePerKb) ==
    LET rate == IF feePerKb = None \/ Val(feePerKb) = 0 THEN FEE_PER_KB ELSE Val(feePerKb)
        fee == CeilDiv(size, 1000) * rate
        size2 == IF amountAvailable > fee THEN size + CHANGE_OUTPUT_MAX_SIZE ELSE size
    IN CeilDiv(size2, 1000) * rate

RECURSIVE SumInputSizes(_)
SumInputSizes(ins) ==
    IF ins = <<>> THEN 0 ELSE InputEstimateSize(Head(ins)) + SumInputSizes(Tail(ins))

RECURSIVE SumOutputSizes(_)
SumOutputSizes(outs) ==
    IF outs = <<>> THEN 0 ELSE Len(Head(outs).script) + 9 + SumOutputSizes(Tail(outs))

\* Transaction.prototype._estimateSize
EstimateSize(t) == MAXIMUM_EXTRA_SIZE + SumInputSizes(t.inputs) + SumOutputSizes(t.outputs)

\* Transaction.prototype._estimateFee
EstimateFee(t) ==
    Then(GetUnspentValue(t), LAMBDA u :
         Ret(u.tx, StaticEstimateFee(EstimateSize(t), u.val, t._feePerKb)))

\* getFee() that estimates the fee whether or not a change script is set: not what
\* the code does
GetFeeAlwaysEstimated(t) ==
    IF IsCoinbase(t) THEN Ret(t, 0)
    ELSE IF t._fee # None THEN Ret(t, Val(t._fee))
    ELSE EstimateFee(t)

\* Transaction.prototype.getFee
GetFee(t) ==
    IF IsCoinbase(t) THEN Ret(t, 0)
    ELSE IF t._fee # None THEN Ret(t, Val(t._fee))
    ELSE IF t._changeScript = None THEN GetUnspentValue(t)
    ELSE EstimateFee(t)

\* Transaction.prototype._addOutput
AddOutputRaw(t, o) == [t EXCEPT !.outputs = Append(@, o), !._outputAmount = None]

\* Transaction.prototype._removeOutput: index is a JavaScript (0-based) index; an
\* index outside the array reads undefined, which no element equals
RemoveOutputRaw(t, index) ==
    IF index >= 0 /\ index < Len(t.outputs)
    THEN LET output == t.outputs[index + 1]
         IN [t EXCEPT !.outputs = SelectSeq(@, LAMBDA v : v.id # output.id),
                      !._outputAmount = None]
    ELSE [t EXCEPT !._outputAmount = None]

\* the identity of an Output object created by a call: one no present output has
NewOutputId(t) ==
    SetMin({n \in 100..(100 + Len(t.outputs)) :
               \A k \in 1..Len(t.outputs) : t.outputs[k].id # n})

\* if (this._changeIndex !== undefined) this._removeOutput(this._changeIndex)
RemoveChangeOutput(t) ==
    IF t._changeIndex # None THEN RemoveOutputRaw(t, Val(t._changeIndex)) ELSE t

\* this._changeIndex = this.outputs.length; this._addOutput(new Output(...))
AddChangeOutput(t, changeAmount) ==
    AddOutputRaw([t EXCEPT !._changeIndex = Some(Len(t.outputs))],
                 Output(NewOutputId(t), Val(t._changeScript), changeAmount))

\* _updateChangeOutput that leaves the signatures as they are: not what the code does
UpdateChangeOutputKeepingSignatures(t) ==
    IF t._changeScript = None THEN Ret(t, 0)
    ELSE Then(GetUnspentValue(RemoveChangeOutput(t)), LAMBDA available :
         Then(GetFee(available.tx), LAMBDA fee :
              IF available.val - fee.val > 0
              THEN Ret(AddChangeOutput(fee.tx, available.val - fee.val), 0)
              ELSE Ret([fee.tx EXCEPT !._changeIndex = None], 0)))

\* Transaction.prototype._updateChangeOutput
UpdateChangeOutput(t) ==
    IF t._changeScript = None THEN Ret(t, 0)
    ELSE Then(ClearSignatures(t), LAMBDA cleared :
         Then(GetUnspentValue(RemoveChangeOutput(cleared.tx)), LAMBDA available :
         Then(GetFee(available.tx), LAMBDA fee :
              IF available.val - fee.val > 0
              THEN Ret(AddChangeOutput(fee.tx, available.val - fee.val), 0)
              ELSE Ret([fee.tx EXCEPT !._changeIndex = None], 0))))

(***************************************************************************)
(* Inputs: from, addInput, uncheckedAddInput, removeInput.                 *)
(***************************************************************************)
\* Input.MAXINT, the default sequence number
DEFAULT_SEQNUMBER == MAXINT

\* the identity of an Input object created by the caller or by from()
NewInputId(t) ==
    SetMin({n \in 1..(Len(t.inputs) + 1) :
               \A k \in 1..Len(t.inputs) : t.inputs[k].id # n})

\* new Input({prevTxId, outputIndex, script, output}) of the given class, its unlock
\* script scriptLength bytes long
Input(id, kind, prevTxId, outputIndex, output, scriptLength) ==
    [id |-> id, kind |-> kind, prevTxId |-> prevTxId, outputIndex |-> outputIndex,
     output |-> output, sequenceNumber |-> DEFAULT_SEQNUMBER, scriptLength |-> scriptLength,
     signed |-> FALSE]

\* Transaction.prototype.uncheckedAddInput
UncheckedAddInput(t, input) ==
    UpdateChangeOutput([t EXCEPT !.inputs = Append(@, input), !._inputAmount = None])

\* the objects of a list that are the object input, each replaced by it (an
\* assignment to a field of an object shows through every reference to it)
Alias(t, input) ==
    [t EXCEPT !.inputs = [k \in 1..Len(t.inputs) |->
                             IF t.inputs[k].id = input.id THEN input ELSE t.inputs[k]]]

\* Transaction.prototype.addInput: outputScript is None (undefined), Some(<<>>)
\* with emptyString (the string ''), or Some(script); satoshis is None or Some(n)
AddInput(t, input, outputScript, emptyString, satoshis) ==
    IF input.output = None /\ (outputScript = None \/ satoshis = None)
    THEN Throw(t, "NeedMoreInfo")
    ELSE IF input.output = None /\ ~emptyString /\ satoshis # None
    THEN LET input2 == [input EXCEPT !.output =
                            Some([script |-> Val(outputScript), bn |-> BNFromNumber(Val(satoshis))])]
         IN UncheckedAddInput(Alias(t, input2), input2)
    ELSE UncheckedAddInput(t, input)

\* Script.prototype.isPublicKeyHashOut
IsPublicKeyHashOut(script) ==
    /\ Len(script) = 25
    /\ script[1] = OP_DUP /\ script[2] = OP_HASH160 /\ script[3] = 20
    /\ script[24] = OP_EQUALVERIFY /\ script[25] = OP_CHECKSIG

\* txs.txId and txs.outputIndex of a descriptor: undefined when the descriptor names
\* them txid and vout, as bitcoind's listunspent does (UnspentOutput reads either)
GivenTxId(utxo) == IF utxo.keys = "txId" THEN Some(utxo.txId) ELSE None
GivenOutputIndex(utxo) == IF utxo.keys = "txId" THEN Some(utxo.outputIndex) ELSE None

\* whether JavaScript takes an optional number for true: defined and not 0
Truthy(n) == n # None /\ Val(n) # 0

\* Script.prototype.isPublicKeyOut: <a public key of 33 or 65 bytes> OP_CHECKSIG
IsPublicKeyOut(script) ==
    /\ Len(script) \in {35, 67}
    /\ script[1] = Len(script) - 2
    /\ script[Len(script)] = OP_CHECKSIG

\* Script.prototype.isScriptHashOut: OP_HASH160 <20 bytes> OP_EQUAL
IsScriptHashOut(script) ==
    /\ Len(script) = 23
    /\ script[1] = OP_HASH160 /\ script[2] = 20
    /\ script[23] = OP_EQUAL

\* Opcode.isSmallIntOp: OP_1 .. OP_16
IsSmallIntOp(b) == b >= OP_1 /\ b <= OP_1 + 15

\* Script.prototype.isMultisigOut: OP_m <public key> ... OP_n OP_CHECKMULTISIG, the
\* public keys of 33 bytes
IsMultisigOut(script) ==
    /\ Len(script) >= 3 + 34
    /\ (Len(script) - 3) % 34 = 0
    /\ IsSmallIntOp(script[1])
    /\ IsSmallIntOp(script[Len(script) - 1])
    /\ script[Len(script)] = OP_CHECKMULTISIG
    /\ \A k \in 0..((Len(script) - 3) \div 34 - 1) : script[2 + 34 * k] = 33

\* the class from() chooses for a previous output with that script, or the error it
\* throws; pubkeys is an array or undefined, threshold a number or undefined
FromClass(script, pubkeys, threshold) ==
    IF pubkeys # None /\ Truthy(threshold)
    THEN (IF ~(Val(threshold) <= Len(Val(pubkeys))) THEN "InvalidArgument"
          ELSE IF IsMultisigOut(script) THEN "MultiSig"
          ELSE IF IsScriptHashOut(script) THEN "MultiSigScriptHash"
          ELSE "Error")
    ELSE IF IsPublicKeyHashOut(script) THEN "PublicKeyHash"
    ELSE IF IsPublicKeyOut(script) THEN "PublicKey"
    ELSE "Input"

\* Transaction.prototype.from, of one descriptor: an output an input already refers
\* to by txId and outputIndex is skipped
FromWith(t, utxo, pubkeys, threshold) ==
    LET utxoExists == \E k \in 1..Len(t.inputs) :
                          /\ Some(t.inputs[k].prevTxId) = GivenTxId(utxo)
                          /\ Some(t.inputs[k].outputIndex) = GivenOutputIndex(utxo)
        Clazz == FromClass(utxo.script, pubkeys, threshold)
        input == Input(NewInputId(t), Clazz, utxo.txId, utxo.outputIndex,
                       Some([script |-> utxo.script, bn |-> BNFromNumber(utxo.satoshis)]),
                       0)
    IN IF utxoExists THEN Ret(t, 0)
       ELSE IF Clazz \in {"InvalidArgument", "Error"} THEN Throw(t, Clazz)
       ELSE AddInput(t, input, None, FALSE, None)

\* from(utxo), without public keys and threshold
From(t, utxo) == FromWith(t, utxo, None, None)

\* _.findIndex(this.inputs, input => ...) of removeInput: 0-based, -1 if none
FindInputIndex(t, txId, outputIndex) ==
    LET hits == {k \in 1..Len(t.inputs) :
                    t.inputs[k].prevTxId = txId /\ t.inputs[k].outputIndex = outputIndex}
    IN IF hits = {} THEN -1 ELSE SetMin(hits) - 1

\* Transaction.prototype.removeInput, from the index on
RemoveInputAt(t, index) ==
    IF index < 0 \/ index >= Len(t.inputs)
    THEN Throw(t, "InvalidIndex")
    ELSE LET input == t.inputs[index + 1]
         IN UpdateChangeOutput([t EXCEPT !.inputs = SelectSeq(@, LAMBDA v : v.id # input.id),
                                         !._inputAmount = None])

\* Transaction.prototype.removeInput(txId, outputIndex)
RemoveInput(t, txId, outputIndex) == RemoveInputAt(t, FindInputIndex(t, txId, outputIndex))

(***************************************************************************)
(* Outputs: to, addData, addOutput, removeOutput, clearOutputs.            *)
(***************************************************************************)
\* the identity of an Output object created by the caller, by to() or by addData()
NewUserOutputId(t) ==
    SetMin({n \in 1..(Len(t.outputs) + 1) :
               \A k \in 1..Len(t.outputs) : t.outputs[k].id # n})

\* Transaction.prototype.addOutput
AddOutput(t, output) == UpdateChangeOutput(AddOutputRaw(t, output))

\* JSUtil.isNaturalNumber
IsNaturalNumber(n) == n >= 0

\* Transaction.prototype.to, for one address
To(t, address, amount) ==
    IF ~IsNaturalNumber(amount) THEN Throw(t, "InvalidArgument")
    ELSE AddOutput(t, Output(NewUserOutputId(t), ScriptFromAddress(address), amount))

\* Transaction.prototype.addData
AddData(t, value) == AddOutput(t, Output(NewUserOutputId(t), DataOut(value), 0))

\* Transaction.prototype.clearOutputs
ClearOutputs(t) ==
    Then(ClearSignatures([t EXCEPT !.outputs = <<>>]), LAMBDA cleared :
         UpdateChangeOutput([cleared.tx EXCEPT !._outputAmount = None, !._changeIndex = None]))

\* Transaction.prototype.removeOutput
RemoveOutput(t, index) == UpdateChangeOutput(RemoveOutputRaw(t, index))

(***************************************************************************)
(* Fee and change setters.                                                 *)
(***************************************************************************)
\* Transaction.prototype.fee
Fee(t, amount) == UpdateChangeOutput([t EXCEPT !._fee = Some(amount)])

\* Transaction.prototype.feePerKb
FeePerKb(t, amount) == UpdateChangeOutput([t EXCEPT !._feePerKb = Some(amount)])

\* Transaction.prototype.change
Change(t, address) == UpdateChangeOutput([t EXCEPT !._changeScript = Some(ScriptFromAddress(address))])

(***************************************************************************)
(* Sorting.                                                                *)
(***************************************************************************)
\* Transaction.prototype.sortInputs, given what sortingFunction(this.inputs) returned
SortInputs(t, newInputs) == ClearSignatures([t EXCEPT !.inputs = newInputs])

\* _.findIndex(array, source): with source undefined the predicate is the identity and
\* the first element matches; with an object it is _.matches(source), a comparison of
\* the object's own fields (script and amount), not of identity. 0-based, -1 if none
FindIndex(array, source) ==
    LET hits == IF source = None THEN 1..Len(array)
                ELSE {k \in 1..Len(array) :
                         array[k].script = Val(source).script /\ array[k].bn = Val(source).bn}
    IN IF hits = {} THEN -1 ELSE SetMin(hits) - 1

\* this.outputs[index], undefined outside the array
OutputAt(t, index) ==
    IF index >= 0 /\ index < Len(t.outputs) THEN Some(t.outputs[index + 1]) ELSE None

\* _newOutputOrder that leaves _changeIndex as it is: not what the code does
NewOutputOrderKeepingIndex(t, newOutputs) ==
    LET difference == {k \in 1..Len(t.outputs) :
                          \A j \in 1..Len(newOutputs) : newOutputs[j].id # t.outputs[k].id}
        isInvalidSorting == Len(t.outputs) # Len(newOutputs) \/ difference # {}
    IN IF isInvalidSorting THEN Throw(t, "InvalidSorting")
       ELSE Ret([t EXCEPT !.outputs = newOutputs], 0)

\* Transaction.prototype._newOutputOrder
NewOutputOrder(t, newOutputs) ==
    LET difference == {k \in 1..Len(t.outputs) :
                          \A j \in 1..Len(newOutputs) : newOutputs[j].id # t.outputs[k].id}
        isInvalidSorting == Len(t.outputs) # Len(newOutputs) \/ difference # {}
    IN IF isInvalidSorting THEN Throw(t, "InvalidSorting")
       ELSE IF t._changeIndex # None
       THEN Ret([t EXCEPT !._changeIndex = Some(FindIndex(newOutputs, OutputAt(t, Val(t._changeIndex)))),
                          !.outputs = newOutputs], 0)
       ELSE Ret([t EXCEPT !.outputs = newOutputs], 0)

\* Transaction.prototype.sortOutputs, given what sortingFunction(this.outputs) returned
SortOutputs(t, newOutputs) == NewOutputOrder(t, newOutputs)

\* compare(first.prevTxId, second.prevTxId) || first.outputIndex - second.outputIndex
InputOrder(first, second) ==
    IF BufferCompare(first.prevTxId, second.prevTxId) # 0
    THEN BufferCompare(first.prevTxId, second.prevTxId)
    ELSE U32Cmp(first.outputIndex, second.outputIndex)

\* a comparator of the amounts alone: not what the code does
OutputOrderByAmount(first, second) == Satoshis(first) - Satoshis(second)

\* first.satoshis - second.satoshis || compare(first.script.toBuffer(), second.script.toBuffer())
OutputOrder(first, second) ==
    IF Satoshis(first) - Satoshis(second) # 0
    THEN Satoshis(first) - Satoshis(second)
    ELSE BufferCompare(first.script, second.script)

\* the comparator sort() hands to copy.sort, for the inputs or for the outputs
Comparator(which, first, second) ==
    IF which = "inputs" THEN InputOrder(first, second) ELSE OutputOrder(first, second)

\* x put into the sorted list s after every element the comparator does not put after it
RECURSIVE Insert(_, _, _)
Insert(x, s, which) ==
    IF s = <<>> THEN <<x>>
    ELSE IF Comparator(which, Head(s), x) > 0 THEN <<x>> \o s
    ELSE <<Head(s)>> \o Insert(x, Tail(s), which)

\* Array.prototype.sort with a comparator: a stable sort
RECURSIVE StableSort(_, _)
StableSort(s, which) ==
    IF s = <<>> THEN <<>>
    ELSE Insert(s[Len(s)], StableSort(SubSeq(s, 1, Len(s) - 1), which), which)

\* Transaction.prototype.sort
Sort(t) ==
    Then(SortInputs(t, StableSort(t.inputs, "inputs")), LAMBDA a :
         SortOutputs(a.tx, StableSort(a.tx.outputs, "outputs")))

\* the orders of s: what a sorting function that keeps its contract may return
Orders(s) == {[k \in 1..Len(s) |-> s[p[k]]] : p \in Permutations(1..Len(s))}

\* what a sorting function may return when it drops or repeats elements of s: the
\* lists of elements of s one shorter than s, as long as s, or one longer
Returns(s, max) ==
    UNION {{[k \in 1..m |-> s[q[k]]] : q \in [1..m -> 1..Len(s)]} :
              m \in {n \in {Len(s) - 1, Len(s), Len(s) + 1} : n >= 0 /\ n <= max}}

\* whether r holds the objects of s, each as often as s does
IsPermutation(r, s) ==
    /\ Len(r) = Len(s)
    /\ \A k \in 1..Len(s) :
          Cardinality({j \in 1..Len(r) : r[j].id = s[k].id})
              = Cardinality({j \in 1..Len(s) : s[j].id = s[k].id})

(***************************************************************************)
(* Signing: sign, getSignatures, applySignature.                           *)
(***************************************************************************)
\* Transaction.prototype.hasAllUtxoInfo: the array of the inputs' !!input.output
HasAllUtxoInfo(t) == [k \in 1..Len(t.inputs) |-> t.inputs[k].output # None]

\* the truth value $.checkState gives an array: an object counts as true, whatever
\* the array holds and also when it is empty
CheckState(array) == Len(array) >= 0

\* Script.prototype.getPublicKeyHash of a pay-to-public-key-hash script
GetPublicKeyHash(script) == SubSeq(script, 4, 23)

\* input.getSignatures(transaction, privKey, index, sigtype, hashData): the base class
\* throws; Input.PublicKeyHash needs its output and signs if the key hashes to the
\* hash of the output's script. 0: throws nothing and signs, or the name of the error
InputGetSignatures(i, hashData) ==
    IF i.kind = "Input" THEN [err |-> "AbstractMethodInvoked", signs |-> FALSE]
    ELSE IF i.output = None THEN [err |-> "InvalidState", signs |-> FALSE]
    ELSE [err |-> NoError, signs |-> GetPublicKeyHash(Val(i.output).script) = hashData]

\* Transaction.prototype.getSignatures: the indexes (1-based) of the inputs the key
\* signs, or the error of the first input that throws
GetSignatures(t, privKey) ==
    LET failing == {k \in 1..Len(t.inputs) :
                       InputGetSignatures(t.inputs[k], Bytes(20, privKey)).err # NoError}
    IN IF failing # {}
       THEN Throw(t, InputGetSignatures(t.inputs[SetMin(failing)], Bytes(20, privKey)).err)
       ELSE Ret(t, {k \in 1..Len(t.inputs) :
                       InputGetSignatures(t.inputs[k], Bytes(20, privKey)).signs})

\* Transaction.prototype.applySignature on an Input.PublicKeyHash: addSignature sets
\* the unlock script to the signature and the public key
ApplySignature(t, inputIndex) ==
    Alias(t, [t.inputs[inputIndex] EXCEPT !.signed = TRUE,
                                          !.scriptLength = PUBLIC_KEY_HASH_SCRIPT_MAX_SIZE])

RECURSIVE ApplySignatures(_, _)
\* signatures.forEach(signature => self.applySignature(signature))
ApplySignatures(t, indexes) ==
    IF indexes = {} THEN t
    ELSE ApplySignatures(ApplySignature(t, SetMin(indexes)), indexes \ {SetMin(indexes)})

\* Transaction.prototype.sign with one private key
SignWith(t, privKey) ==
    IF ~CheckState(HasAllUtxoInfo(t)) THEN Throw(t, "InvalidState")
    ELSE Then(GetSignatures(t, privKey), LAMBDA signatures :
              Ret(ApplySignatures(signatures.tx, signatures.val), 0))

RECURSIVE SignEach(_, _)
\* privateKeys.forEach(privateKey => self.sign(privateKey, sigtype))
SignEach(t, privateKeys) ==
    IF privateKeys = <<>> THEN Ret(t, 0)
    ELSE Then(SignWith(t, Head(privateKeys)), LAMBDA r : SignEach(r.tx, Tail(privateKeys)))

\* Transaction.prototype.sign: privateKeys is an array of keys or one key
Sign(t, privateKeys) ==
    IF ~CheckState(HasAllUtxoInfo(t)) THEN Throw(t, "InvalidState")
    ELSE IF privateKeys.array THEN SignEach(t, privateKeys.keys)
    ELSE SignWith(t, privateKeys.keys[1])

(***************************************************************************)
(* Serialization and its checks.                                           *)
(***************************************************************************)
\* the options argument of serialize and getSerializationError: undefined, true, or
\* an object with the flags it carries
Opts(kind, all, moreOutput, largeFees, smallFees, dust, signed) ==
    [kind |-> kind, disableAll |-> all, disableMoreOutputThanInput |-> moreOutput,
     disableLargeFees |-> largeFees, disableSmallFees |-> smallFees,
     disableDustOutputs |-> dust, disableIsFullySigned |-> signed]

\* the bytes of Output.prototype.toBufferWriter: the amount, the script with its length
OutputBufferLength(o) == 8 + VarintSize(Len(o.script)) + Len(o.script)

\* what Input.prototype.toBufferWriter and Output.prototype.toBufferWriter write
InputEncoding(i) ==
    [prevTxId |-> i.prevTxId, outputIndex |-> i.outputIndex,
     scriptLength |-> i.scriptLength, sequenceNumber |-> i.sequenceNumber]

OutputEncoding(o) == [satoshis |-> o.bn, script |-> o.script]

\* Transaction.prototype.toBufferWriter / toBuffer: the fields written, in order
ToBuffer(t) ==
    [version |-> t.version,
     inputs |-> [k \in 1..Len(t.inputs) |-> InputEncoding(t.inputs[k])],
     outputs |-> [k \in 1..Len(t.outputs) |-> OutputEncoding(t.outputs[k])],
     nLockTime |-> U32(t.nLockTime)]

RECURSIVE SumInputLengths(_)
SumInputLengths(ins) ==
    IF ins = <<>> THEN 0 ELSE InputBufferLength(Head(ins)) + SumInputLengths(Tail(ins))

RECURSIVE SumOutputLengths(_)
SumOutputLengths(outs) ==
    IF outs = <<>> THEN 0 ELSE OutputBufferLength(Head(outs)) + SumOutputLengths(Tail(outs))

\* this.toBuffer().length
BufferLength(t) ==
    4 + VarintSize(Len(t.inputs)) + SumInputLengths(t.inputs)
      + VarintSize(Len(t.outputs)) + SumOutputLengths(t.outputs) + 4

\* Transaction.prototype.uncheckedSerialize (toString): the hex of toBuffer()
UncheckedSerialize(t) == Ret(t, ToBuffer(t))

\* Transaction.prototype.invalidSatoshis
InvalidSatoshisTx(t) == \E k \in 1..Len(t.outputs) : InvalidSatoshis(t.outputs[k])

\* Transaction.prototype._missingChange
MissingChange(t) == t._changeScript = None

\* _hasFeeError that compares the fee that was set only when large fees are checked:
\* not what the code does
HasFeeErrorUnlessDisabled(t, opts, unspent) ==
    LET fee == EstimateFee(t).val
        maximumFee == FEE_SECURITY_MARGIN * fee
        minimumFee == CeilDiv(fee, FEE_SECURITY_MARGIN)
    IN IF ~opts.disableLargeFees /\ t._fee # None /\ Val(t._fee) # unspent
       THEN "FeeError.Different"
       ELSE IF ~opts.disableLargeFees /\ unspent > maximumFee
       THEN (IF MissingChange(t) THEN "ChangeAddressMissing" ELSE "FeeError.TooLarge")
       ELSE IF ~opts.disableSmallFees /\ unspent < minimumFee THEN "FeeError.TooSmall"
       ELSE "undefined"

\* Transaction.prototype._hasFeeError: the name of the error, or "undefined"
HasFeeError(t, opts, unspent) ==
    LET fee == EstimateFee(t).val
        maximumFee == FEE_SECURITY_MARGIN * fee
        minimumFee == CeilDiv(fee, FEE_SECURITY_MARGIN)
    IN IF t._fee # None /\ Val(t._fee) # unspent THEN "FeeError.Different"
       ELSE IF ~opts.disableLargeFees /\ unspent > maximumFee
       THEN (IF MissingChange(t) THEN "ChangeAddressMissing" ELSE "FeeError.TooLarge")
       ELSE IF ~opts.disableSmallFees /\ unspent < minimumFee THEN "FeeError.TooSmall"
       ELSE "undefined"

\* Transaction.prototype._hasDustOutputs
HasDustOutputs(t, opts) ==
    IF /\ ~opts.disableDustOutputs
       /\ \E k \in 1..Len(t.outputs) :
             Satoshis(t.outputs[k]) < DUST_AMOUNT /\ ~IsDataOut(t.outputs[k].script)
    THEN "DustOutputs" ELSE "undefined"

\* Transaction.prototype.isFullySigned: an input of the base class cannot tell
IsFullySigned(t) ==
    IF \E k \in 1..Len(t.inputs) : t.inputs[k].kind = "Input"
    THEN Throw(t, "UnableToVerifySignature")
    ELSE Ret(t, \A k \in 1..Len(t.inputs) : t.inputs[k].signed)

\* Transaction.prototype._isMissingSignatures
IsMissingSignatures(t, opts) ==
    IF opts.disableIsFullySigned THEN Ret(t, "undefined")
    ELSE LET f == IsFullySigned(t)
         IN IF f.err # NoError THEN f
            ELSE Ret(t, IF f.val THEN "undefined" ELSE "MissingSignatures")

\* getSerializationError that looks for dust before it looks at the amounts: not what
\* the code does
GetSerializationErrorDustFirst(t, opts) ==
    IF InvalidSatoshisTx(t) THEN Ret(t, "InvalidSatoshis")
    ELSE IF HasDustOutputs(t, opts) # "undefined" THEN Ret(t, HasDustOutputs(t, opts))
    ELSE LET u == GetUnspentValue(t)
             unspentError ==
                 IF u.val < 0
                 THEN (IF ~opts.disableMoreOutputThanInput
                       THEN "InvalidOutputAmountSum" ELSE "undefined")
                 ELSE HasFeeError(u.tx, opts, u.val)
         IN IF u.err # NoError THEN u
            ELSE IF unspentError # "undefined" THEN Ret(u.tx, unspentError)
            ELSE IsMissingSignatures(u.tx, opts)

\* Transaction.prototype.getSerializationError: the name of the error returned, or
\* "undefined"
GetSerializationError(t, opts) ==
    IF InvalidSatoshisTx(t) THEN Ret(t, "InvalidSatoshis")
    ELSE LET u == GetUnspentValue(t)
             unspentError ==
                 IF u.val < 0
                 THEN (IF ~opts.disableMoreOutputThanInput
                       THEN "InvalidOutputAmountSum" ELSE "undefined")
                 ELSE HasFeeError(u.tx, opts, u.val)
         IN IF u.err # NoError THEN u
            ELSE IF unspentError # "undefined" THEN Ret(u.tx, unspentError)
            ELSE IF HasDustOutputs(u.tx, opts) # "undefined"
            THEN Ret(u.tx, HasDustOutputs(u.tx, opts))
            ELSE IsMissingSignatures(u.tx, opts)

\* Transaction.prototype.checkedSerialize
CheckedSerialize(t, opts) ==
    LET serializationError == GetSerializationError(t, opts)
    IN IF serializationError.err # NoError THEN serializationError
       ELSE IF serializationError.val # "undefined"
       THEN Throw(serializationError.tx, serializationError.val)
       ELSE UncheckedSerialize(serializationError.tx)

\* serialize that checks whatever the options say: not what the code does
SerializeAlwaysChecked(t, unsafe) == CheckedSerialize(t, unsafe)

\* Transaction.prototype.serialize
Serialize(t, unsafe) ==
    IF unsafe.kind = "true" \/ (unsafe.kind = "object" /\ unsafe.disableAll)
    THEN UncheckedSerialize(t)
    ELSE CheckedSerialize(t, unsafe)

(***************************************************************************)
(* verify().                                                               *)
(***************************************************************************)
\* 0x80..0xBF, the bytes that continue a UTF-8 sequence
IsContinuation(b) == b >= 128 /\ b <= 191

\* U+FFFD, what the decoder puts for bytes that are no UTF-8
REPLACEMENT_CHARACTER == 65533

\* the bounds of the second byte after the lead byte b of a 3- or 4-byte sequence
SecondLow(b) == IF b = 224 THEN 160 ELSE IF b = 240 THEN 144 ELSE 128
SecondHigh(b) == IF b = 237 THEN 159 ELSE IF b = 244 THEN 143 ELSE 191

\* how many bytes the sequence led by b has (0: b leads none)
SequenceLength(b) ==
    IF b < 128 THEN 1
    ELSE IF b >= 194 /\ b <= 223 THEN 2
    ELSE IF b >= 224 /\ b <= 239 THEN 3
    ELSE IF b >= 240 /\ b <= 244 THEN 4
    ELSE 0

\* how many bytes from the start of buf belong to one well-formed sequence or to the
\* longest ill-formed start of one
RECURSIVE GoodPrefix(_, _, _)
GoodPrefix(buf, n, k) ==
    IF k > n \/ k > Len(buf) THEN k - 1
    ELSE IF k = 2 /\ (buf[2] < SecondLow(buf[1]) \/ buf[2] > SecondHigh(buf[1])) THEN 1
    ELSE IF k > 2 /\ ~IsContinuation(buf[k]) THEN k - 1
    ELSE GoodPrefix(buf, n, k + 1)

\* the code point of the well-formed sequence seq
CodePoint(seq) ==
    IF Len(seq) = 1 THEN seq[1]
    ELSE IF Len(seq) = 2 THEN (seq[1] - 192) * 64 + (seq[2] - 128)
    ELSE IF Len(seq) = 3 THEN (seq[1] - 224) * 4096 + (seq[2] - 128) * 64 + (seq[3] - 128)
    ELSE (seq[1] - 240) * 262144 + (seq[2] - 128) * 4096 + (seq[3] - 128) * 64 + (seq[4] - 128)

\* Buffer.prototype.toString(): the buffer decoded as UTF-8, a code point per
\* well-formed sequence and U+FFFD per ill-formed one
RECURSIVE Utf8Decode(_)
Utf8Decode(buf) ==
    IF buf = <<>> THEN <<>>
    ELSE LET n == SequenceLength(buf[1])
             got == IF n = 0 THEN 1 ELSE GoodPrefix(buf, n, 2)
         IN IF n # 0 /\ got = n
            THEN <<CodePoint(SubSeq(buf, 1, n))>> \o Utf8Decode(SubSeq(buf, n + 1, Len(buf)))
            ELSE <<REPLACEMENT_CHARACTER>> \o Utf8Decode(SubSeq(buf, got + 1, Len(buf)))

\* the key `${input.prevTxId}:${input.outputIndex}`: the text of the buffer and the
\* decimal digits of the index (a number stands for its digits)
InputId(i) == <<Utf8Decode(i.prevTxId), i.outputIndex>>

\* the first output (1-based), if any, at which the loop over the outputs returns,
\* and what it returns there
OutputFailure(t, k) ==
    IF InvalidSatoshis(t.outputs[k]) THEN "Transaction output contains invalid amount"
    ELSE IF BNGt(t.outputs[k].bn, MAX_MONEY)
    THEN "Transaction output contains too high satoshi amount"
    ELSE "none"

RECURSIVE CheckOutputs(_, _, _)
CheckOutputs(t, k, valueoutbn) ==
    IF k > Len(t.outputs) THEN "none"
    ELSE IF OutputFailure(t, k) # "none" THEN OutputFailure(t, k)
    ELSE IF BNGt(BNAdd(valueoutbn, t.outputs[k].bn), MAX_MONEY)
    THEN "Transaction output contains too high satoshi amount"
    ELSE CheckOutputs(t, k + 1, BNAdd(valueoutbn, t.outputs[k].bn))

\* verify() without the loop over the inputs that looks for duplicates: not what the
\* code does
VerifyWithoutDuplicateCheck(t) ==
    IF Len(t.inputs) = 0 THEN "transaction txins empty"
    ELSE IF Len(t.outputs) = 0 THEN "transaction txouts empty"
    ELSE IF CheckOutputs(t, 1, <<0, 0>>) # "none" THEN CheckOutputs(t, 1, <<0, 0>>)
    ELSE IF BufferLength(t) > MAX_BLOCK_SIZE THEN "Transaction over the maximum block size"
    ELSE IF IsCoinbase(t)
    THEN (IF t.inputs[1].scriptLength < 2 \/ t.inputs[1].scriptLength > 100
          THEN "Coinbase transaction script size invalid" ELSE "true")
    ELSE IF \E k \in 1..Len(t.inputs) : IsNull(t.inputs[k]) THEN "Transaction has null input"
    ELSE "true"

\* Transaction.prototype.verify: "true" or the failure text
Verify(t) ==
    IF Len(t.inputs) = 0 THEN "transaction txins empty"
    ELSE IF Len(t.outputs) = 0 THEN "transaction txouts empty"
    ELSE IF CheckOutputs(t, 1, <<0, 0>>) # "none" THEN CheckOutputs(t, 1, <<0, 0>>)
    ELSE IF BufferLength(t) > MAX_BLOCK_SIZE THEN "Transaction over the maximum block size"
    ELSE IF \E j, k \in 1..Len(t.inputs) : j < k /\ InputId(t.inputs[j]) = InputId(t.inputs[k])
    THEN "Transaction contains duplicate input"
    ELSE IF IsCoinbase(t)
    THEN (IF t.inputs[1].scriptLength < 2 \/ t.inputs[1].scriptLength > 100
          THEN "Coinbase transaction script size invalid" ELSE "true")
    ELSE IF \E k \in 1..Len(t.inputs) : IsNull(t.inputs[k]) THEN "Transaction has null input"
    ELSE "true"

(***************************************************************************)
(* Lock time and replace-by-fee.                                           *)
(***************************************************************************)
\* Input.DEFAULT_LOCKTIME_SEQNUMBER, MAXINT - 1
DEFAULT_LOCKTIME_SEQNUMBER == <<65535, 65534>>

\* Input.DEFAULT_RBF_SEQNUMBER, MAXINT - 2
DEFAULT_RBF_SEQNUMBER == <<65535, 65533>>

\* a number
Number(n) == [type |-> "number", value |-> n]

\* a Date, by the seconds since the epoch it denotes: getTime() is 1000 times value
Date(seconds) == [type |-> "date", value |-> seconds]

\* a loop that gives every input the sequence number that enables the lock time: not
\* what the code does
EnableLockTimeOfEveryInput(inputs) ==
    [k \in 1..Len(inputs) |-> [inputs[k] EXCEPT !.sequenceNumber = DEFAULT_LOCKTIME_SEQNUMBER]]

\* the loop of lockUntilDate and lockUntilBlockHeight over the inputs
EnableLockTime(inputs) ==
    [k \in 1..Len(inputs) |->
        IF inputs[k].sequenceNumber = DEFAULT_SEQNUMBER
        THEN [inputs[k] EXCEPT !.sequenceNumber = DEFAULT_LOCKTIME_SEQNUMBER]
        ELSE inputs[k]]

\* Transaction.prototype.lockUntilDate: time is a number or a Date
LockUntilDate(t, time) ==
    IF time.type = "number" /\ time.value = 0 THEN Throw(t, "InvalidArgument")
    ELSE IF time.type = "number" /\ time.value < NLOCKTIME_BLOCKHEIGHT_LIMIT
    THEN Throw(t, "LockTimeTooEarly")
    ELSE Ret([t EXCEPT !.inputs = EnableLockTime(@), !.nLockTime = time.value], 0)

\* Transaction.prototype.lockUntilBlockHeight
LockUntilBlockHeight(t, height) ==
    IF height >= NLOCKTIME_BLOCKHEIGHT_LIMIT THEN Throw(t, "BlockHeightTooHigh")
    ELSE IF height < 0 THEN Throw(t, "NLockTimeOutOfRange")
    ELSE Ret([t EXCEPT !.inputs = EnableLockTime(@), !.nLockTime = height], 0)

\* Transaction.prototype.isRBF
IsRBF(t) ==
    \E k \in 1..Len(t.inputs) : U32Lt(t.inputs[k].sequenceNumber, DEFAULT_LOCKTIME_SEQNUMBER)

\* enableRBF that gives the inputs the sequence number that enables the lock time:
\* not what the code does
EnableRBFWithLockTimeSequence(t) ==
    Ret([t EXCEPT !.inputs = [k \in 1..Len(t.inputs) |->
            IF ~U32Lt(t.inputs[k].sequenceNumber, DEFAULT_LOCKTIME_SEQNUMBER)
            THEN [t.inputs[k] EXCEPT !.sequenceNumber = DEFAULT_LOCKTIME_SEQNUMBER]
            ELSE t.inputs[k]]], 0)

\* Transaction.prototype.enableRBF
EnableRBF(t) ==
    Ret([t EXCEPT !.inputs = [k \in 1..Len(t.inputs) |->
            IF ~U32Lt(t.inputs[k].sequenceNumber, DEFAULT_LOCKTIME_SEQNUMBER)
            THEN [t.inputs[k] EXCEPT !.sequenceNumber = DEFAULT_RBF_SEQNUMBER]
            ELSE t.inputs[k]]], 0)

(***************************************************************************)
(* Construction.                                                           *)
(***************************************************************************)
\* new Transaction()
NewTransaction ==
    [version |-> CURRENT_VERSION, inputs |-> <<>>, outputs |-> <<>>,
     nLockTime |-> DEFAULT_NLOCKTIME,
     _changeScript |-> None, _changeIndex |-> None, _fee |-> None, _feePerKb |-> None,
     _inputAmount |-> None, _outputAmount |-> None]

\* the object the constructor has made before it reads its argument (l.38-41):
\* empty lists, no totals; version and nLockTime are not yet set (0 stands for that)
Blank == [NewTransaction EXCEPT !.version = 0, !.nLockTime = 0]

\* Input.fromBufferReader: an input of the base class, without its previous output
InputFromEncoding(id, e) ==
    [Input(id, "Input", e.prevTxId, e.outputIndex, None, e.scriptLength)
        EXCEPT !.sequenceNumber = e.sequenceNumber]

\* fromBufferReader that does not keep the sequence numbers it reads: not what the
\* code does
FromBufferDefaultSequence(buffer) ==
    [Blank EXCEPT
        !.version = buffer.version,
        !.inputs = [k \in 1..Len(buffer.inputs) |->
                       Input(k, "Input", buffer.inputs[k].prevTxId, buffer.inputs[k].outputIndex,
                             None, buffer.inputs[k].scriptLength)],
        !.outputs = [k \in 1..Len(buffer.outputs) |->
                        [id |-> k, script |-> buffer.outputs[k].script,
                         bn |-> buffer.outputs[k].satoshis]],
        !.nLockTime = buffer.nLockTime[1] * 65536 + buffer.nLockTime[2]]

\* new Transaction(buffer): Transaction.prototype.fromBuffer / fromBufferReader
FromBuffer(buffer) ==
    [Blank EXCEPT
        !.version = buffer.version,
        !.inputs = [k \in 1..Len(buffer.inputs) |-> InputFromEncoding(k, buffer.inputs[k])],
        !.outputs = [k \in 1..Len(buffer.outputs) |->
                        [id |-> k, script |-> buffer.outputs[k].script,
                         bn |-> buffer.outputs[k].satoshis]],
        !.nLockTime = buffer.nLockTime[1] * 65536 + buffer.nLockTime[2]]

\* Transaction.shallowCopy
ShallowCopy(t) == Ret(FromBuffer(ToBuffer(t)), 0)

\* Transaction.prototype._getHash / hash: a digest, the same for the same bytes
Hash(t) == [sha256sha256 |-> ToBuffer(t)]

\* Input.prototype.toObject: the coordinate, the sequence number, the unlock script
\* (its length and whether it holds a signature and a public key) and the previous
\* output if the input carries one; only the multisig classes add publicKeys and
\* threshold
InputToObject(i) ==
    [prevTxId |-> i.prevTxId, outputIndex |-> i.outputIndex,
     sequenceNumber |-> i.sequenceNumber,
     script |-> [length |-> i.scriptLength, publicKeyHashIn |-> i.signed],
     output |-> IF i.output = None THEN None
                ELSE Some([script |-> Val(i.output).script, satoshis |-> Val(i.output).bn]),
     publicKeys |-> None, threshold |-> None]

\* Output.prototype.toObject
OutputToObject(o) == [satoshis |-> o.bn, script |-> o.script]

\* Transaction.prototype.toObject (toJSON): a field the code leaves out is None
ToObject(t) ==
    [hash |-> Some(Hash(t)),
     version |-> t.version,
     inputs |-> [k \in 1..Len(t.inputs) |-> InputToObject(t.inputs[k])],
     outputs |-> [k \in 1..Len(t.outputs) |-> OutputToObject(t.outputs[k])],
     nLockTime |-> t.nLockTime,
     changeScript |-> t._changeScript,
     changeIndex |-> t._changeIndex,
     fee |-> t._fee]

\* the class fromObject makes an input of that carries its previous output, or the
\* error it throws; publicKeys is an array or undefined, threshold a number or
\* undefined
FromObjectClass(script, publicKeys, threshold) ==
    IF IsPublicKeyHashOut(script) THEN "PublicKeyHash"
    ELSE IF IsScriptHashOut(script) /\ publicKeys # None /\ Truthy(threshold)
    THEN "MultiSigScriptHash"
    ELSE IF IsPublicKeyOut(script) THEN "PublicKey"
    ELSE "UnsupportedScript"

\* the class of an input whose snapshot has no public keys and no threshold
InputClass(script) == FromObjectClass(script, None, None)

\* new Input(input) and its subclasses, of a snapshot's input
InputFromObject(id, kind, o) ==
    [id |-> id, kind |-> kind, prevTxId |-> o.prevTxId, outputIndex |-> o.outputIndex,
     output |-> IF o.output = None THEN None
                ELSE Some([script |-> Val(o.output).script, bn |-> Val(o.output).satoshis]),
     sequenceNumber |-> o.sequenceNumber, scriptLength |-> o.script.length,
     signed |-> kind # "Input" /\ o.script.publicKeyHashIn]

\* the body of transaction.inputs.forEach in fromObject, for one input
AddInputFromObject(t, o) ==
    IF o.output = None
    THEN UncheckedAddInput(t, InputFromObject(NewInputId(t), "Input", o))
    ELSE IF FromObjectClass(Val(o.output).script, o.publicKeys, o.threshold)
                = "UnsupportedScript"
    THEN Throw(t, "UnsupportedScript")
    ELSE AddInput(t, InputFromObject(NewInputId(t),
                                     FromObjectClass(Val(o.output).script, o.publicKeys,
                                                     o.threshold), o),
                  None, FALSE, None)

RECURSIVE AddInputsFromObject(_, _)
AddInputsFromObject(t, inputs) ==
    IF inputs = <<>> THEN Ret(t, 0)
    ELSE Then(AddInputFromObject(t, Head(inputs)), LAMBDA r :
              AddInputsFromObject(r.tx, Tail(inputs)))

RECURSIVE AddOutputsFromObject(_, _)
\* transaction.outputs.forEach(output => this.addOutput(new Output(output)))
AddOutputsFromObject(t, outputs) ==
    IF outputs = <<>> THEN Ret(t, 0)
    ELSE Then(AddOutput(t, [id |-> NewUserOutputId(t), script |-> Head(outputs).script,
                            bn |-> Head(outputs).satoshis]), LAMBDA r :
              AddOutputsFromObject(r.tx, Tail(outputs)))

\* the assignments of fromObject after the outputs (l.360-370)
SetFromObject(t, o) ==
    [t EXCEPT !._changeIndex = IF Truthy(o.changeIndex) THEN o.changeIndex ELSE @,
              !._changeScript = IF o.changeScript # None THEN o.changeScript ELSE @,
              !._fee = IF Truthy(o.fee) THEN o.fee ELSE @,
              !.nLockTime = o.nLockTime,
              !.version = o.version]

\* Transaction.prototype._checkConsistency
CheckConsistency(t, arg) ==
    IF t._changeIndex # None /\ t._changeScript = None THEN Throw(t, "InvalidState")
    ELSE IF t._changeIndex # None /\ OutputAt(t, Val(t._changeIndex)) = None
    THEN Throw(t, "InvalidState")
    ELSE IF t._changeIndex # None
            /\ Val(OutputAt(t, Val(t._changeIndex))).script # Val(t._changeScript)
    THEN Throw(t, "InvalidState")
    ELSE IF arg.hash # None /\ Val(arg.hash) # Hash(t) THEN Throw(t, "InvalidState")
    ELSE Ret(t, 0)

\* fromObject before its last statement (l.336-370)
Rebuild(t, arg) ==
    Then(AddInputsFromObject(t, arg.inputs), LAMBDA a :
    Then(AddOutputsFromObject(a.tx, arg.outputs), LAMBDA b :
         Ret(SetFromObject(b.tx, arg), 0)))

\* Transaction.prototype.fromObject
FromObject(t, arg) == Then(Rebuild(t, arg), LAMBDA r : CheckConsistency(r.tx, arg))

\* new Transaction(snapshot)
NewFromObject(arg) == FromObject(Blank, arg)

(***************************************************************************)
(* What the callers of the model pass.                                     *)
(***************************************************************************)
TxA == Bytes(32, 17)

AddressA == [type |-> "pubkeyhash", hash |-> 170]
AddressB == [type |-> "scripthash", hash |-> 187]

Addresses == {AddressA, AddressB}

\* the descriptors from() is given: one output, described with the keys txId and
\* outputIndex and with the keys txid and vout
Utxos ==
    {[keys |-> k, txId |-> TxA, outputIndex |-> U32(0), script |-> PublicKeyHashOut(170),
      satoshis |-> 1000000] : k \in {"txId", "txid"}}

\* the Input objects addInput and uncheckedAddInput are given: a new one of the base
\* class with its spent output, a new null input without one, a new
\* Input.PublicKeyHash without its spent output, or an object the transaction
\* already holds
CallerInputs(t) ==
    {Input(NewInputId(t), "Input", TxA, U32(1),
           Some([script |-> PublicKeyHashOut(170), bn |-> BNFromNumber(600000)]), 900),
     Input(NewInputId(t), "Input", NullTxId, MAXINT, None, 2),
     Input(NewInputId(t), "PublicKeyHash", TxA, U32(1), None, 0)}
    \cup {t.inputs[k] : k \in 1..Len(t.inputs)}

\* the (outputScript, satoshis) addInput is given: neither, both, '' and an amount,
\* a script alone, an amount alone
AddInputArgs ==
    {[outputScript |-> None, emptyString |-> FALSE, satoshis |-> None],
     [outputScript |-> Some(PublicKeyHashOut(170)), emptyString |-> FALSE, satoshis |-> Some(150000)],
     [outputScript |-> Some(<<>>), emptyString |-> TRUE, satoshis |-> Some(150000)],
     [outputScript |-> Some(PublicKeyHashOut(170)), emptyString |-> FALSE, satoshis |-> None],
     [outputScript |-> None, emptyString |-> FALSE, satoshis |-> Some(150000)]}

\* the Output objects addOutput is given: a new one, or one the transaction holds
CallerOutputs(t) ==
    {Output(NewUserOutputId(t), ScriptHashOut(187), 300000)}
    \cup {t.outputs[k] : k \in 1..Len(t.outputs)}

\* the (address, amount) to() is given
ToArgs ==
    {[address |-> AddressA, amount |-> 450000], [address |-> AddressB, amount |-> 450000],
     [address |-> AddressB, amount |-> 700000], [address |-> AddressA, amount |-> -1]}

\* the private keys sign() is given, each named by the byte its public key hashes
\* to: no key, the key of AddressA, and a key of no output with the key of AddressA
SignArgs ==
    {[array |-> TRUE, keys |-> <<>>],
     [array |-> FALSE, keys |-> <<170>>],
     [array |-> TRUE, keys |-> <<204, 170>>]}

FeeAmounts == {0, 100000}

FeePerKbAmounts == {1000, 50000}

(***************************************************************************)
(* The calls.                                                              *)
(***************************************************************************)
Bounded(t) == Len(t.inputs) <= MaxInputs /\ Len(t.outputs) <= MaxOutputs

\* the inputs (as objects) that carry a signature
Signed(t) == {t.inputs[k].id : k \in {j \in 1..Len(t.inputs) : t.inputs[j].signed}}

\* what a call returns: removeOutput and removeInput end without a return statement,
\* getFee returns a number, serialize a string, getSerializationError an error or
\* undefined, verify true or a text, isRBF a boolean; every other call returns the
\* transaction
Returned(op, r) ==
    IF r.err # NoError THEN "throws"
    ELSE IF op \in {"removeOutput", "removeInput"} THEN "undefined"
    ELSE IF op = "getFee" THEN "number"
    ELSE IF op = "serialize" THEN "string"
    ELSE IF op \in {"getSerializationError", "verify", "isRBF"} THEN r.val
    ELSE "this"

\* calls are made while fewer than MaxCalls were
CanCall == calls < MaxCalls

Do(op, r) ==
    /\ Bounded(r.tx)
    /\ tx' = r.tx
    /\ last' = [op |-> op, err |-> r.err, ret |-> Returned(op, r), signed |-> Signed(tx)]
    /\ calls' = calls + 1

CallFrom ==
    /\ CanCall
    /\ \E u \in Utxos : Do("from", From(tx, u))

CallAddInput ==
    /\ CanCall
    /\ \E i \in CallerInputs(tx), a \in AddInputArgs :
           Do("addInput", AddInput(tx, i, a.outputScript, a.emptyString, a.satoshis))

CallUncheckedAddInput ==
    /\ CanCall
    /\ \E i \in CallerInputs(tx) : Do("uncheckedAddInput", UncheckedAddInput(tx, i))

CallRemoveInput ==
    /\ CanCall
    /\ \/ \E index \in -1..Len(tx.inputs) : Do("removeInput", RemoveInputAt(tx, index))
       \/ \E o \in {U32(0), U32(1)} : Do("removeInput", RemoveInput(tx, TxA, o))

CallTo ==
    /\ CanCall
    /\ \E a \in ToArgs : Do("to", To(tx, a.address, a.amount))

CallAddData ==
    /\ CanCall
    /\ Do("addData", AddData(tx, <<1>>))

CallAddOutput ==
    /\ CanCall
    /\ \E o \in CallerOutputs(tx) : Do("addOutput", AddOutput(tx, o))

CallRemoveOutput ==
    /\ CanCall
    /\ \E index \in -1..Len(tx.outputs) : Do("removeOutput", RemoveOutput(tx, index))

CallClearOutputs ==
    /\ CanCall
    /\ Do("clearOutputs", ClearOutputs(tx))

CallFee ==
    /\ CanCall
    /\ \E n \in FeeAmounts : Do("fee", Fee(tx, n))

CallFeePerKb ==
    /\ CanCall
    /\ \E n \in FeePerKbAmounts : Do("feePerKb", FeePerKb(tx, n))

CallChange ==
    /\ CanCall
    /\ \E a \in Addresses : Do("change", Change(tx, a))

CallSortOutputs ==
    /\ CanCall
    /\ \E r \in Returns(tx.outputs, MaxOutputs) : Do("sortOutputs", SortOutputs(tx, r))

CallShuffleOutputs ==
    /\ CanCall
    /\ \E r \in Orders(tx.outputs) : Do("shuffleOutputs", SortOutputs(tx, r))

CallSortInputs ==
    /\ CanCall
    /\ \E r \in Returns(tx.inputs, MaxInputs) : Do("sortInputs", SortInputs(tx, r))

CallSort ==
    /\ CanCall
    /\ Do("sort", Sort(tx))

CallSign ==
    /\ CanCall
    /\ \E k \in SignArgs : Do("sign", Sign(tx, k))

CallGetFee ==
    /\ CanCall
    /\ Do("getFee", GetFee(tx))

Init ==
    /\ tx = NewTransaction
    /\ last = [op |-> "new", err |-> NoError, ret |-> "this", signed |-> {}]
    /\ calls = 0

Next ==
    \/ CallFrom
    \/ CallAddInput
    \/ CallUncheckedAddInput
    \/ CallRemoveInput
    \/ CallTo
    \/ CallAddData
    \/ CallAddOutput
    \/ CallRemoveOutput
    \/ CallClearOutputs
    \/ CallFee
    \/ CallFeePerKb
    \/ CallChange
    \/ CallSortOutputs
    \/ CallShuffleOutputs
    \/ CallSortInputs
    \/ CallSort
    \/ CallSign
    \/ CallGetFee

Spec == Init /\ [][Next]_vars

(***************************************************************************)
(* from, addInput and uncheckedAddInput alone.                             *)
(***************************************************************************)
NextAdd ==
    \/ CallFrom
    \/ CallAddInput
    \/ CallUncheckedAddInput

SpecAdd == Init /\ [][NextAdd]_vars

(***************************************************************************)
(* serialize and getSerializationError on the transactions of a pool.      *)
(***************************************************************************)
\* the longest inputs and outputs together of a transaction of the pools
MaxListed == 3

\* the lists of n elements of S
Lists(S, n) == [1..n -> S]

\* the pairs of a list of inputs and a list of outputs, MaxListed elements at most
ListPairs(Ins, Outs) ==
    UNION {Lists(Ins, i) \X Lists(Outs, o) :
              i \in 0..MaxListed, o \in 0..MaxListed} \ {p \in {} : TRUE}

\* each element of the list made an object of its own
Numbered(list) == [k \in 1..Len(list) |-> [list[k] EXCEPT !.id = k]]

\* inputs: a P2PKH input unsigned and signed, an input of the base class with its
\* previous output, and one without
SerInputs ==
    LET known == Some([script |-> PublicKeyHashOut(170), bn |-> BNFromNumber(1000000)])
    IN {Input(0, "PublicKeyHash", TxA, U32(0), known, 0),
        [Input(0, "PublicKeyHash", TxA, U32(1), known, 107) EXCEPT !.signed = TRUE],
        Input(0, "Input", TxA, U32(2), known, 0),
        Input(0, "Input", TxA, U32(3), None, 0)}

\* outputs: two payments, a dust payment, a data output, and an amount above
\* Number.MAX_SAFE_INTEGER
SerOutputs ==
    {Output(0, PublicKeyHashOut(187), 900000),
     Output(0, PublicKeyHashOut(187), 1000000),
     Output(0, PublicKeyHashOut(187), 100),
     Output(0, DataOut(<<1>>), 0),
     [id |-> 0, script |-> PublicKeyHashOut(187), bn |-> <<9007200, 0>>]}

\* the change script, explicit fee and fee rate of the transactions
SerSettings ==
    {[c |-> None, f |-> None, r |-> None],
     [c |-> Some(PublicKeyHashOut(170)), f |-> None, r |-> None],
     [c |-> None, f |-> Some(100000), r |-> None],
     [c |-> None, f |-> None, r |-> Some(1000)],
     [c |-> Some(PublicKeyHashOut(170)), f |-> None, r |-> Some(1000)]}

SerTransactions ==
    {[NewTransaction EXCEPT !.inputs = Numbered(p[1]), !.outputs = Numbered(p[2]),
                            !._changeScript = g.c, !._fee = g.f, !._feePerKb = g.r] :
        p \in {q \in ListPairs(SerInputs, SerOutputs) : Len(q[1]) + Len(q[2]) <= MaxListed},
        g \in SerSettings}

\* the options getSerializationError reads: undefined, or an object with some flags
CheckOptions ==
    {Opts("undefined", FALSE, FALSE, FALSE, FALSE, FALSE, FALSE)} \cup
    {Opts("object", FALSE, a, b, c, d, e) : a, b, c, d, e \in BOOLEAN}

\* the options serialize is given
SerializeOptions ==
    CheckOptions \cup {Opts("true", FALSE, FALSE, FALSE, FALSE, FALSE, FALSE),
                       Opts("object", TRUE, FALSE, FALSE, FALSE, FALSE, FALSE)}

\* a call of a function that only reads the lists
Ask(op, r) ==
    /\ tx' = r.tx
    /\ last' = [op |-> op, err |-> r.err, ret |-> Returned(op, r), signed |-> Signed(tx)]
    /\ UNCHANGED calls

CallSerialize == \E o \in SerializeOptions : Ask("serialize", Serialize(tx, o))

CallGetSerializationError ==
    \E o \in CheckOptions : Ask("getSerializationError", GetSerializationError(tx, o))

InitSer ==
    /\ tx \in SerTransactions
    /\ last = [op |-> "new", err |-> NoError, ret |-> "this", signed |-> {}]
    /\ calls = 0

NextSer ==
    \/ CallSerialize
    \/ CallGetSerializationError

SpecSer == InitSer /\ [][NextSer]_vars

(***************************************************************************)
(* verify() on the transactions of a pool.                                 *)
(***************************************************************************)
TxB == Bytes(32, 200)

\* an id that differs from TxB in every byte; neither is UTF-8 text
TxC == Bytes(32, 201)

\* inputs: four coordinates, one of them a second time with a script of the size of
\* a block, and a null input with a script a coinbase may have
VerifyInputs ==
    {Input(0, "Input", TxA, U32(0), None, 0),
     Input(0, "Input", TxA, U32(1), None, 0),
     Input(0, "Input", TxB, U32(0), None, 0),
     Input(0, "Input", TxC, U32(0), None, 0),
     Input(0, "Input", TxA, U32(0), None, MAX_BLOCK_SIZE),
     Input(0, "Input", NullTxId, MAXINT, None, 2)}

\* outputs: a payment, an amount above Number.MAX_SAFE_INTEGER, MAX_MONEY and one more
VerifyOutputs ==
    {Output(0, PublicKeyHashOut(187), 1000),
     [id |-> 0, script |-> PublicKeyHashOut(187), bn |-> <<9007200, 0>>],
     [id |-> 0, script |-> PublicKeyHashOut(187), bn |-> MAX_MONEY],
     [id |-> 0, script |-> PublicKeyHashOut(187), bn |-> BNAdd(MAX_MONEY, <<0, 1>>)]}

VerifyTransactions ==
    {[NewTransaction EXCEPT !.inputs = Numbered(p[1]), !.outputs = Numbered(p[2])] :
        p \in {q \in ListPairs(VerifyInputs, VerifyOutputs) : Len(q[1]) + Len(q[2]) <= MaxListed}}

CallVerify == Ask("verify", Ret(tx, Verify(tx)))

InitVerify ==
    /\ tx \in VerifyTransactions
    /\ last = [op |-> "new", err |-> NoError, ret |-> "this", signed |-> {}]
    /\ calls = 0

NextVerify == CallVerify

SpecVerify == InitVerify /\ [][NextVerify]_vars

(***************************************************************************)
(* lockUntilDate, lockUntilBlockHeight, enableRBF and isRBF on the         *)
(* transactions of a pool.                                                 *)
(***************************************************************************)
\* inputs with the default sequence number, the two below it, and a small one, and
\* a signed input with the default sequence number
LockInputs ==
    {[Input(0, "Input", TxA, U32(0), None, 0) EXCEPT !.sequenceNumber = n] :
        n \in {DEFAULT_SEQNUMBER, DEFAULT_LOCKTIME_SEQNUMBER, DEFAULT_RBF_SEQNUMBER, U32(7)}}
    \cup {[Input(0, "PublicKeyHash", TxA, U32(1),
                 Some([script |-> PublicKeyHashOut(170), bn |-> BNFromNumber(1000000)]),
                 107) EXCEPT !.signed = TRUE]}

\* a transaction without outputs, and one with a payment and a change output
LockOutputs ==
    {NewTransaction,
     [NewTransaction EXCEPT !.outputs = <<Output(1, PublicKeyHashOut(187), 450000),
                                          Output(100, PublicKeyHashOut(170), 500000)>>,
                            !._changeScript = Some(PublicKeyHashOut(170)),
                            !._changeIndex = Some(1)]}

LockTransactions ==
    {[t EXCEPT !.inputs = Numbered(l)] :
        t \in LockOutputs, l \in UNION {Lists(LockInputs, n) : n \in 0..MaxInputs}}

\* the numbers lockUntilDate and lockUntilBlockHeight are given
LockNumbers == {-1, 0, 1, 499999999, 500000000, 1500000000}

\* what lockUntilDate is given: a number of seconds or a Date
LockTimes == {Number(n) : n \in LockNumbers} \cup {Date(n) : n \in LockNumbers \ {-1}}

CallLockUntilDate == \E v \in LockTimes : Ask("lockUntilDate", LockUntilDate(tx, v))

CallLockUntilBlockHeight ==
    \E h \in LockNumbers : Ask("lockUntilBlockHeight", LockUntilBlockHeight(tx, h))

CallEnableRBF == Ask("enableRBF", EnableRBF(tx))

CallIsRBF == Ask("isRBF", Ret(tx, IsRBF(tx)))

InitLock ==
    /\ tx \in LockTransactions
    /\ last = [op |-> "new", err |-> NoError, ret |-> "this", signed |-> {}]
    /\ calls = 0

NextLock ==
    \/ CallLockUntilDate
    \/ CallLockUntilBlockHeight
    \/ CallEnableRBF
    \/ CallIsRBF

SpecLock == InitLock /\ [][NextLock]_vars

(***************************************************************************)
(* Copies: a transaction is built, copied through its bytes and rebuilt    *)
(* from snapshots.                                                         *)
(***************************************************************************)
\* the block heights the transactions that are copied are locked until
CopyHeights == {7}

\* the snapshots that differ from a snapshot in one field: no change script, another
\* change script, a change index, another lock time, no hash
Variants(o) ==
    {[o EXCEPT !.changeScript = None]}
    \cup {[o EXCEPT !.changeScript = Some(ScriptFromAddress(a))] : a \in Addresses}
    \cup {[o EXCEPT !.changeIndex = Some(k)] : k \in 0..Len(o.outputs)}
    \cup {[o EXCEPT !.nLockTime = o.nLockTime + 1]}
    \cup {[o EXCEPT !.hash = None]}

\* the snapshots new Transaction is given: the transaction's own and its variants
Snapshots(t) == {ToObject(t)} \cup Variants(ToObject(t))

CallLockUntil ==
    \E h \in CopyHeights : Ask("lockUntilBlockHeight", LockUntilBlockHeight(tx, h))

CallShallowCopy ==
    /\ CanCall
    /\ Do("shallowCopy", ShallowCopy(tx))

\* new Transaction(snapshot): when it throws the caller has the transaction it had
CallFromObject ==
    /\ CanCall
    /\ \E o \in Snapshots(tx) :
           Do("fromObject", IF NewFromObject(o).err = NoError THEN NewFromObject(o)
                            ELSE Throw(tx, NewFromObject(o).err))

NextCopy ==
    \/ CallFrom
    \/ CallAddInput
    \/ CallTo
    \/ CallChange
    \/ CallFee
    \/ CallSign
    \/ CallEnableRBF
    \/ CallLockUntil
    \/ CallShallowCopy
    \/ CallFromObject

SpecCopy == Init /\ [][NextCopy]_vars

(***************************************************************************)
(* Change-output properties.                                               *)
(***************************************************************************)
\* the outputs _updateChangeOutput created (positions in t.outputs)
ChangeOutputs(t) == {k \in 1..Len(t.outputs) : t.outputs[k].id >= 100}

\* the cached totals are unset or equal the totals of the present lists
CachesFresh(t) ==
    /\ \A k \in 1..Len(t.inputs) : t.inputs[k].output # None
    /\ t._inputAmount \in {None, Some(SumInputs(t.inputs))}
    /\ t._outputAmount \in {None, Some(SumSatoshis(t.outputs))}

\* the calls that recompute the change output
ChangeMutators ==
    {"from", "addInput", "uncheckedAddInput", "removeInput", "to", "addData", "addOutput",
     "removeOutput", "clearOutputs", "fee", "feePerKb", "change"}

\* the transaction without the output _changeIndex points at
WithoutTrackedChange(t) ==
    IF t._changeIndex # None /\ Val(t._changeIndex) < Len(t.outputs)
    THEN [t EXCEPT !.outputs = SubSeq(@, 1, Val(t._changeIndex)) \o
                               SubSeq(@, Val(t._changeIndex) + 2, Len(@)),
                   !._inputAmount = None, !._outputAmount = None]
    ELSE [t EXCEPT !._inputAmount = None, !._outputAmount = None]

\* C1: after a mutator returned normally on a transaction with a change script, known
\* previous outputs and fresh totals, let available be the input total minus the
\* outputs other than the tracked change output and fee the fee of the recomputation;
\* if available - fee > 0 the tracked change output carries available - fee, otherwise
\* _changeIndex is undefined and no change output (none of an earlier recomputation
\* either) is among the outputs.
C1_ChangeOutputMaintained ==
    (/\ last.op \in ChangeMutators
     /\ last.err = NoError
     /\ tx._changeScript # None
     /\ CachesFresh(tx))
    => LET rest == WithoutTrackedChange(tx)
           available == SumInputs(rest.inputs) - SumSatoshis(rest.outputs)
           fee == GetFee(rest).val
       IN IF available - fee > 0
          THEN /\ tx._changeIndex # None
               /\ Val(tx._changeIndex) < Len(tx.outputs)
               /\ Satoshis(tx.outputs[Val(tx._changeIndex) + 1]) = available - fee
          ELSE /\ tx._changeIndex = None
               /\ ChangeOutputs(tx) = {}

\* C2: whenever _changeIndex is defined on a non-coinbase transaction, the input total
\* minus the output total minus getFee() is 0.
C2_ChangeBalances ==
    (tx._changeIndex # None /\ ~IsCoinbase(tx))
    => LET i == GetInputAmount(tx)
           o == GetOutputAmount(tx)
           f == GetFee(tx)
       IN /\ i.err = NoError
          /\ f.err = NoError
          /\ i.val - o.val - f.val = 0

\* C3: whenever _changeIndex is defined, the change script is set, _changeIndex is an
\* index of outputs and the output there carries the change script.
C3_ChangeIndexValid ==
    tx._changeIndex # None
    => /\ tx._changeScript # None
       /\ Val(tx._changeIndex) >= 0
       /\ Val(tx._changeIndex) < Len(tx.outputs)
       /\ tx.outputs[Val(tx._changeIndex) + 1].script = Val(tx._changeScript)

\* the transaction is none of the cases C4 sets aside: every input knows its previous
\* output, it is no coinbase, and no change script is set
NoChangeScriptCase(t) ==
    /\ ~IsCoinbase(t)
    /\ \A k \in 1..Len(t.inputs) : t.inputs[k].output # None
    /\ t._changeScript = None

C8_InvalidSortingRejected ==
    /\ \A r \in Returns(tx.outputs, MaxOutputs) :
          ~IsPermutation(r, tx.outputs)
          => /\ SortOutputs(tx, r).err = "InvalidSorting"
             /\ SortOutputs(tx, r).tx = tx
    /\ \A r \in Returns(tx.inputs, MaxInputs) :
          ~IsPermutation(r, tx.inputs)
          => /\ SortInputs(tx, r).err = "InvalidSorting"
             /\ SortInputs(tx, r).tx = tx

\* _changeIndex points at an output: a change output is tracked
ChangeTracked(t) ==
    t._changeIndex # None /\ Val(t._changeIndex) >= 0 /\ Val(t._changeIndex) < Len(t.outputs)

\* the output _changeIndex points at
TrackedChange(t) == t.outputs[Val(t._changeIndex) + 1]

\* after the reordering that led from before to after, _changeIndex points at an output
\* with the script and the amount of the change output tracked before
ChangePreserved(before, after) ==
    ChangeTracked(before)
    => /\ ChangeTracked(after)
       /\ TrackedChange(after).script = TrackedChange(before).script
       /\ TrackedChange(after).bn = TrackedChange(before).bn

\* C9: sortOutputs with a sorting function that returns a permutation of the outputs
\* (shuffleOutputs and the reordering of the outputs by sort() are such calls)
\* succeeds, outputs becomes that permutation, and a change output tracked before is
\* tracked after: _changeIndex is an index of the new outputs whose output has the
\* same script and amount.  sort() as a whole never fails with InvalidSorting; it
\* reaches its sortOutputs unless clearing the signatures in its sortInputs threw.
C9_PermutationKeepsChange ==
    /\ \A r \in Orders(tx.outputs) :
          LET res == SortOutputs(tx, r)
          IN /\ res.err = NoError
             /\ res.tx.outputs = r
             /\ ChangePreserved(tx, res.tx)
    /\ StableSort(tx.outputs, "outputs") \in Orders(tx.outputs)
    /\ LET res == Sort(tx)
       IN /\ res.err \in {NoError, "AbstractMethodInvoked"}
          /\ res.err = NoError
             => /\ res.tx.outputs = StableSort(tx.outputs, "outputs")
                /\ ChangePreserved(tx, res.tx)

\* a reordering has moved the tracked change output off the last position, where
\* _updateChangeOutput had appended it
C9_Witness ==
    /\ last.op \in {"sortOutputs", "shuffleOutputs", "sort"}
    /\ last.err = NoError
    /\ ChangeTracked(tx)
    /\ Len(tx.outputs) >= 2
    /\ Val(tx._changeIndex) < Len(tx.outputs) - 1
    /\ TrackedChange(tx).id >= 100

\* the list is in ascending order of (prevTxId bytes, outputIndex)
InputsAscending(ins) ==
    \A j, k \in 1..Len(ins) :
        j < k => \/ BufferCompare(ins[j].prevTxId, ins[k].prevTxId) < 0
                 \/ /\ ins[j].prevTxId = ins[k].prevTxId
                    /\ ~U32Lt(ins[k].outputIndex, ins[j].outputIndex)

\* the list is in ascending order of (satoshis, script bytes)
OutputsAscending(outs) ==
    \A j, k \in 1..Len(outs) :
        j < k => \/ Satoshis(outs[j]) < Satoshis(outs[k])
                 \/ /\ Satoshis(outs[j]) = Satoshis(outs[k])
                    /\ BufferCompare(outs[j].script, outs[k].script) <= 0

\* C10: sort() leaves inputs ascending by (prevTxId bytes, outputIndex) and, when it
\* returns, outputs ascending by (satoshis, script bytes); a second sort() ends as the
\* first did and changes neither order nor _changeIndex.  (sort() ends either
\* normally or, after it has ordered the inputs, with the error of clearing the
\* signatures of an input of the base class.)
C10_SortIdempotent ==
    LET once == Sort(tx)
        twice == Sort(once.tx)
    IN /\ once.err \in {NoError, "AbstractMethodInvoked"}
       /\ twice.err = once.err
       /\ InputsAscending(once.tx.inputs)
       /\ once.err = NoError => OutputsAscending(once.tx.outputs)
       /\ twice.tx.inputs = once.tx.inputs
       /\ twice.tx.outputs = once.tx.outputs
       /\ twice.tx._changeIndex = once.tx._changeIndex

\* sort() was called and has put the tracked change output in front of a larger output
C10_Witness ==
    /\ last.op = "sort"
    /\ last.err = NoError
    /\ Len(tx.outputs) >= 2
    /\ tx._changeIndex = Some(0)
    /\ TrackedChange(tx).id >= 100
    /\ Satoshis(tx.outputs[1]) < Satoshis(tx.outputs[2])


(***************************************************************************)
(* Properties of serialize, getSerializationError and verify.              *)
(***************************************************************************)
\* the input total minus the output total
Unspent(t) == SumInputs(t.inputs) - SumSatoshis(t.outputs)

\* an output is dust: below DUST_AMOUNT and no data output
HasDust(t) ==
    \E k \in 1..Len(t.outputs) :
        Satoshis(t.outputs[k]) < DUST_AMOUNT /\ t.outputs[k].script[1] # OP_RETURN

\* the error of the first check, in the order of C6, that is enabled in opts and that
\* t fails; "undefined" if there is none
FirstFailingCheck(t, opts) ==
    IF \E k \in 1..Len(t.outputs) : InvalidSatoshis(t.outputs[k]) THEN "InvalidSatoshis"
    ELSE IF Unspent(t) < 0 /\ ~opts.disableMoreOutputThanInput THEN "InvalidOutputAmountSum"
    ELSE IF Unspent(t) >= 0 /\ HasFeeError(t, opts, Unspent(t)) # "undefined"
    THEN HasFeeError(t, opts, Unspent(t))
    ELSE IF ~opts.disableDustOutputs /\ HasDust(t) THEN "DustOutputs"
    ELSE IF ~opts.disableIsFullySigned /\ \E k \in 1..Len(t.inputs) : ~t.inputs[k].signed
    THEN "MissingSignatures"
    ELSE "undefined"

\* C5: serialize(options) with options true or options.disableAll set returns the
\* encoding and evaluates no check (nothing is thrown, no total is computed); with any
\* other options it returns the encoding only if getSerializationError(options) is
\* undefined, and otherwise throws exactly that error and returns nothing.
C5_SerializeChecks ==
    \A o \in SerializeOptions :
        LET res == Serialize(tx, o)
            e == GetSerializationError(tx, o)
        IN IF o.kind = "true" \/ o.disableAll
           THEN res = Ret(tx, ToBuffer(tx))
           ELSE /\ res.err = NoError
                   => (e.err = NoError /\ e.val = "undefined" /\ res.val = ToBuffer(tx))
                /\ (e.err = NoError /\ e.val # "undefined") => res.err = e.val
                /\ (e.err = NoError /\ e.val = "undefined") => res.err = NoError

\* serialize has returned the encoding of a transaction with an invalid output amount,
\* which only the unconditional path does
C5_Witness ==
    /\ last.op = "serialize"
    /\ last.ret = "string"
    /\ InvalidSatoshisTx(tx)

\* the totals the checks after the first need are defined: every input carries its
\* previous output
TotalsKnown(t) == \A k \in 1..Len(t.inputs) : t.inputs[k].output # None

\* C6: getSerializationError(options), when it returns, returns the error of the first
\* enabled check that fails, the checks taken in the order invalid output amount,
\* outputs exceed inputs, fee bounds (only for a non-negative unspent value), dust
\* outputs, missing signatures; it returns undefined exactly when none fails.
C6_FirstFailingCheck ==
    \A o \in CheckOptions :
        LET e == GetSerializationError(tx, o)
        IN (e.err = NoError /\ (InvalidSatoshisTx(tx) \/ TotalsKnown(tx)))
           => e.val = FirstFailingCheck(tx, o)

\* getSerializationError has returned the error of the second check on a transaction
\* that also has a dust output and an unsigned input
C6_Witness ==
    /\ last.op = "getSerializationError"
    /\ last.ret = "InvalidOutputAmountSum"
    /\ HasDust(tx)
    /\ \E k \in 1..Len(tx.inputs) : ~tx.inputs[k].signed

\* two inputs refer to the same (prevTxId, outputIndex)
HasDuplicateInput(t) ==
    \E j, k \in 1..Len(t.inputs) :
        /\ j # k
        /\ t.inputs[j].prevTxId = t.inputs[k].prevTxId
        /\ t.inputs[j].outputIndex = t.inputs[k].outputIndex

\* the sum of the amounts of the first n outputs
RECURSIVE BNSum(_, _)
BNSum(outs, n) == IF n = 0 THEN <<0, 0>> ELSE BNAdd(BNSum(outs, n - 1), outs[n].bn)

\* the checks verify() makes before it looks for duplicates pass: inputs and outputs
\* are not empty, every amount is valid and, like every running total, at most
\* MAX_MONEY, and the encoding is no longer than a block
EarlierChecksPass(t) ==
    /\ Len(t.inputs) > 0 /\ Len(t.outputs) > 0
    /\ \A k \in 1..Len(t.outputs) :
          /\ ~InvalidSatoshis(t.outputs[k])
          /\ ~BNGt(t.outputs[k].bn, MAX_MONEY)
          /\ ~BNGt(BNSum(t.outputs, k), MAX_MONEY)
    /\ BufferLength(t) <= MAX_BLOCK_SIZE

\* C7: verify() does not return true for a transaction without inputs or without
\* outputs, nor for one with two inputs of the same (prevTxId, outputIndex); for the
\* latter it returns the duplicate-input text whenever the earlier checks pass.
C7_VerifyRejects ==
    /\ (Len(tx.inputs) = 0 \/ Len(tx.outputs) = 0) => Verify(tx) # "true"
    /\ HasDuplicateInput(tx) => Verify(tx) # "true"
    /\ (HasDuplicateInput(tx) /\ EarlierChecksPass(tx))
       => Verify(tx) = "Transaction contains duplicate input"

\* verify() has returned the duplicate-input text
C7_Witness ==
    /\ last.op = "verify"
    /\ last.ret = "Transaction contains duplicate input"
    /\ HasDuplicateInput(tx)
    /\ EarlierChecksPass(tx)

(***************************************************************************)
(* Properties of the inputs.                                               *)
(***************************************************************************)
\* an input of t refers to the output the descriptor describes
Referenced(t, utxo) ==
    \E k \in 1..Len(t.inputs) :
        t.inputs[k].prevTxId = utxo.txId /\ t.inputs[k].outputIndex = utxo.outputIndex

\* C11: after any sequence of from, addInput and uncheckedAddInput no two inputs refer
\* to the same (prevTxId, outputIndex), and from() with a descriptor of an output an
\* input already refers to leaves inputs and outputs as they are.
C11_NoDuplicateInputs ==
    /\ ~HasDuplicateInput(tx)
    /\ \A u \in Utxos :
          Referenced(tx, u) => /\ From(tx, u).tx.inputs = tx.inputs
                               /\ From(tx, u).tx.outputs = tx.outputs

C13_SignNeedsUtxoInfo ==
    (\E k \in 1..Len(tx.inputs) : tx.inputs[k].output = None)
    => \A keys \in SignArgs : /\ Sign(tx, keys).err # NoError
                              /\ Sign(tx, keys).tx = tx

(***************************************************************************)
(* Properties of the removals and of what the mutators return.             *)
(***************************************************************************)
\* the call failed with InvalidIndex and left the transaction as it was
RejectedIndex(r, t) == r.err = "InvalidIndex" /\ r.tx = t

\* C14: removeOutput(index) and removeInput(index) throw InvalidIndex for every index
\* below 0 or not below the length of the list, removeInput(txId, outputIndex) does
\* when no input has that coordinate, and the failing call changes nothing.
C14_InvalidIndexRejected ==
    /\ \A index \in {-1, Len(tx.outputs), Len(tx.outputs) + 1} :
          RejectedIndex(RemoveOutput(tx, index), tx)
    /\ \A index \in {-1, Len(tx.inputs), Len(tx.inputs) + 1} :
          RejectedIndex(RemoveInputAt(tx, index), tx)
    /\ \A o \in {U32(0), U32(1)} :
          (\A k \in 1..Len(tx.inputs) :
               ~(tx.inputs[k].prevTxId = TxA /\ tx.inputs[k].outputIndex = o))
          => RejectedIndex(RemoveInput(tx, TxA, o), tx)

\* the mutating operations of the model
Mutators ==
    ChangeMutators \cup {"sort", "sortInputs", "sortOutputs", "shuffleOutputs", "sign"}

\* C15: every mutating operation that completes without error returns the transaction
\* it was called on.
C15_MutatorsReturnThis ==
    (last.op \in Mutators /\ last.err = NoError) => last.ret = "this"

(***************************************************************************)
(* Properties of the lock time and of replace-by-fee.                      *)
(***************************************************************************)
\* the call failed with the error e and left lock time and sequence numbers alone
Rejected(r, e, t) ==
    /\ r.err = e
    /\ r.tx.nLockTime = t.nLockTime
    /\ \A k \in 1..Len(t.inputs) : r.tx.inputs[k].sequenceNumber = t.inputs[k].sequenceNumber

\* C16: lockUntilDate(v) throws LockTimeTooEarly for every v, a number of seconds or a
\* Date, that denotes a time below 500,000,000 seconds; lockUntilBlockHeight(h)
\* throws BlockHeightTooHigh for h >= 500,000,000 and NLockTimeOutOfRange for h < 0;
\* the failing call leaves nLockTime and every sequence number as they were.
C16_LockLimits ==
    /\ \A v \in LockTimes :
          v.value < NLOCKTIME_BLOCKHEIGHT_LIMIT
          => Rejected(LockUntilDate(tx, v), "LockTimeTooEarly", tx)
    /\ \A h \in LockNumbers :
          /\ h >= NLOCKTIME_BLOCKHEIGHT_LIMIT
             => Rejected(LockUntilBlockHeight(tx, h), "BlockHeightTooHigh", tx)
          /\ h < 0 => Rejected(LockUntilBlockHeight(tx, h), "NLockTimeOutOfRange", tx)

\* C17 as stated: isRBF() is true of every transaction enableRBF() has returned.
C17_EnableRBFThenIsRBF == IsRBF(EnableRBF(tx).tx)

\* C17: isRBF() is true of every transaction with at least one input that
\* enableRBF() has returned, and false of one without inputs.
C17_EnableRBFThenIsRBFWithInputs ==
    /\ EnableRBF(tx).err = NoError
    /\ IsRBF(EnableRBF(tx).tx) <=> Len(tx.inputs) >= 1

\* enableRBF() has returned a transaction an input of which it has set to the
\* sequence number that signals replaceability, and isRBF() is true of it
C17_Witness ==
    /\ last.op = "enableRBF"
    /\ last.err = NoError
    /\ \E k \in 1..Len(tx.inputs) : tx.inputs[k].sequenceNumber = DEFAULT_RBF_SEQNUMBER
    /\ \A k \in 1..Len(tx.inputs) :
          tx.inputs[k].sequenceNumber \in {DEFAULT_RBF_SEQNUMBER, U32(7)}
    /\ IsRBF(tx)


\* the lists toBuffer writes, one by one
SameWire(a, b) ==
    /\ a.version = b.version
    /\ Len(a.inputs) = Len(b.inputs)
    /\ \A k \in 1..Len(a.inputs) :
           /\ a.inputs[k].prevTxId = b.inputs[k].prevTxId
           /\ a.inputs[k].outputIndex = b.inputs[k].outputIndex
           /\ a.inputs[k].scriptLength = b.inputs[k].scriptLength
           /\ a.inputs[k].sequenceNumber = b.inputs[k].sequenceNumber
    /\ Len(a.outputs) = Len(b.outputs)
    /\ \A k \in 1..Len(a.outputs) :
           /\ a.outputs[k].script = b.outputs[k].script
           /\ a.outputs[k].bn = b.outputs[k].bn
    /\ a.nLockTime = b.nLockTime

Classifiable(t) ==
    \A k \in 1..Len(t.inputs) :
        t.inputs[k].output # None =>
            InputClass(Val(t.inputs[k].output).script) # "UnsupportedScript"

\* C19: the transaction rebuilt from toObject() of a transaction whose inputs can
\* all be classified is made without an error and its toObject() is the one it was
\* made from: version, inputs, outputs, lock time, change script, change index and
\* fee, a change index of 0 and a fee of 0 included
C19_ObjectRoundTrip ==
    Classifiable(tx) =>
        /\ NewFromObject(ToObject(tx)).err = NoError
        /\ ToObject(NewFromObject(ToObject(tx)).tx) = ToObject(tx)

\* the hash of the transaction a snapshot describes
RecomputedHash(o) == Hash(Rebuild(Blank, o).tx)

\* a snapshot that has a change index and no change script, or whose output at the
\* change index is missing or carries another script, or whose hash is not the
\* recomputed one
Inconsistent(o) ==
    \/ o.changeIndex # None /\ o.changeScript = None
    \/ /\ o.changeIndex # None
       /\ o.changeScript # None
       /\ \/ Val(o.changeIndex) >= Len(o.outputs)
          \/ o.outputs[Val(o.changeIndex) + 1].script # Val(o.changeScript)
    \/ o.hash # None /\ Val(o.hash) # RecomputedHash(o)

\* C20: new Transaction(snapshot) throws whenever the snapshot is inconsistent, a
\* change index of 0 included
C20_InconsistentSnapshotRejected ==
    \A o \in Snapshots(tx) :
        (Rebuild(Blank, o).err = NoError /\ Inconsistent(o)) =>
            NewFromObject(o).err # NoError

\* every input carries its previous output, so that the sum of the spent amounts is
\* defined
AllPreviousOutputsKnown(t) == \A k \in 1..Len(t.inputs) : t.inputs[k].output # None

\* C21: in every state the calls reach, the inputAmount getter returns the sum of
\* the amounts of the previous outputs of the inputs now in the list (when every
\* input carries one) and the outputAmount getter returns the sum of the amounts of
\* the outputs now in the list
C21_NoStaleTotals ==
    /\ AllPreviousOutputsKnown(tx) =>
           /\ GetInputAmount(tx).err = NoError
           /\ GetInputAmount(tx).val = SumInputs(tx.inputs)
    /\ GetOutputAmount(tx).val = SumSatoshis(tx.outputs)

\* C22: for a transaction with valid amounts, a non-negative unspent value u and the
\* estimated fee e, _hasFeeError, as getSerializationError calls it,
\* returns the fee-mismatch error if a fee is set and is not u, whatever the flags;
\* otherwise, if large fees are checked and u > floor(150 * e), the fee-too-large
\* error, or the change-address-missing error when no change script is set;
\* otherwise, if small fees are checked and u < ceil(e / 150), the fee-too-small
\* error; otherwise nothing
C22_FeeBounds ==
    (~InvalidSatoshisTx(tx) /\ TotalsKnown(tx) /\ Unspent(tx) >= 0) =>
        \A o \in CheckOptions :
            LET u == Unspent(tx)
                e == EstimateFee(tx).val
                mismatch == tx._fee # None /\ Val(tx._fee) # u
                tooLarge == ~o.disableLargeFees /\ u > (FEE_SECURITY_MARGIN * e)
                tooSmall == ~o.disableSmallFees
                            /\ u < (e + FEE_SECURITY_MARGIN - 1) \div FEE_SECURITY_MARGIN
                result == HasFeeError(tx, o, u)
            IN /\ mismatch => result = "FeeError.Different"
               /\ (~mismatch /\ tooLarge /\ tx._changeScript = None)
                      => result = "ChangeAddressMissing"
               /\ (~mismatch /\ tooLarge /\ tx._changeScript # None)
                      => result = "FeeError.TooLarge"
               /\ (~mismatch /\ ~tooLarge /\ tooSmall) => result = "FeeError.TooSmall"
               /\ (~mismatch /\ ~tooLarge /\ ~tooSmall) => result = "undefined"

\* C22: getSerializationError has returned the change-address-missing error for a
\* transaction that has no change script, no fee, and an unspent value above the
\* margin
C22_Witness ==
    /\ last.op = "getSerializationError"
    /\ last.ret = "ChangeAddressMissing"
    /\ tx._changeScript = None
    /\ tx._fee = None
    /\ TotalsKnown(tx)
    /\ Unspent(tx) > FEE_SECURITY_MARGIN * EstimateFee(tx).val

\* the output at _changeIndex exists and carries the change script
ChangeMaterialized(t) ==
    /\ t._changeScript # None
    /\ t._changeIndex # None
    /\ OutputAt(t, Val(t._changeIndex)) # None
    /\ Val(OutputAt(t, Val(t._changeIndex))).script = Val(t._changeScript)

\* the errors of the fee checks and of the check of the outputs against the inputs
FeeErrors ==
    {"FeeError.Different", "FeeError.TooLarge", "ChangeAddressMissing",
     "FeeError.TooSmall", "InvalidOutputAmountSum"}

\* C23: in every state the calls reach in which a change script is set, no fee is
\* set, the fee rate is positive (or the default) and the change output is in the
\* list, getSerializationError returns none of the fee-mismatch, fee-too-large,
\* change-address-missing, fee-too-small and outputs-exceed-inputs errors, whatever
\* the options
C23_ChangeKeepsFeeWithinMargin ==
    (/\ ChangeMaterialized(tx)
     /\ tx._fee = None
     /\ (tx._feePerKb = None \/ Val(tx._feePerKb) > 0))
    => \A o \in CheckOptions :
           GetSerializationError(tx, o).err = NoError
               => GetSerializationError(tx, o).val \notin FeeErrors

\* the transaction with no outputs and no memoized totals
WithoutOutputs(t) ==
    [t EXCEPT !.outputs = <<>>, !._outputAmount = None, !._inputAmount = None,
              !._changeIndex = None]

\* the change clearOutputs leaves: the input total less the fee of the transaction
\* without outputs
ChangeOfInputs(t) == SumInputs(t.inputs) - GetFee(WithoutOutputs(t)).val

\* C24: when clearOutputs() has returned, no input carries a signature, whether or
\* not a change script is set, and the outputs are either none, with _changeIndex
\* undefined, or the one change output, at _changeIndex 0: the latter, with the input
\* total less the fee as its amount, exactly when a change script is set and that
\* amount is positive (the input total being defined when every input carries its
\* previous output)
C24_ClearOutputs ==
    [][(last'.op = "clearOutputs" /\ last'.err = NoError)
       => /\ \A k \in 1..Len(tx'.inputs) :
                ~tx'.inputs[k].signed /\ tx'.inputs[k].scriptLength = 0
          /\ Len(tx'.inputs) = Len(tx.inputs)
          /\ \/ tx'.outputs = <<>> /\ tx'._changeIndex = None
             \/ /\ Len(tx'.outputs) = 1
                /\ tx._changeScript # None
                /\ tx'.outputs[1].script = Val(tx._changeScript)
                /\ tx'._changeIndex = Some(0)
          /\ AllPreviousOutputsKnown(tx)
                 => IF tx._changeScript # None /\ ChangeOfInputs(tx) > 0
                    THEN /\ Len(tx'.outputs) = 1
                         /\ Satoshis(tx'.outputs[1]) = ChangeOfInputs(tx)
                    ELSE tx'.outputs = <<>>]_vars

RECURSIVE Except(_, _)
\* the elements of a list at the positions that are not in skip, in their order
Except(s, skip) ==
    IF s = <<>> THEN <<>>
    ELSE Except(SubSeq(s, 1, Len(s) - 1), skip)
             \o (IF Len(s) \in skip THEN <<>> ELSE <<s[Len(s)]>>)

\* the outputs the caller added: those no change maintenance created
CallerAdded(outputs) == Except(outputs, {k \in 1..Len(outputs) : outputs[k].id >= 100})

\* no Output object stands in the list twice
OutputsDistinct(t) ==
    \A j, k \in 1..Len(t.outputs) : j # k => t.outputs[j].id # t.outputs[k].id

\* C25: removeOutput(i) with 0 <= i < outputs.length on a list of distinct outputs,
\* when it returns, leaves the outputs the caller added as they were, in their
\* order, less the one at position i, wherever the change output stands and also
\* when i is its index
C25_RemoveOutputFrame ==
    OutputsDistinct(tx) =>
        \A i \in 0..(Len(tx.outputs) - 1) :
            RemoveOutput(tx, i).err = NoError
                => CallerAdded(RemoveOutput(tx, i).tx.outputs)
                       = CallerAdded(Except(tx.outputs, {i + 1}))

\* C26: verify() returns the duplicate-input text only for a transaction two inputs
\* of which have the same bytes of prevTxId and the same outputIndex, and returns it
\* for every such transaction that passes the earlier checks
C26_DuplicateInputExact ==
    /\ Verify(tx) = "Transaction contains duplicate input" => HasDuplicateInput(tx)
    /\ (HasDuplicateInput(tx) /\ EarlierChecksPass(tx))
           => Verify(tx) = "Transaction contains duplicate input"

(***************************************************************************)
(* How from() and fromObject() choose the class of an input from the       *)
(* script of the output it spends and from the public keys and threshold   *)
(* they are given.                                                         *)
(***************************************************************************)
\* two public keys of 33 bytes
PublicKeys == <<Bytes(33, 2), Bytes(33, 3)>>

\* Script.buildPublicKeyOut: <public key> OP_CHECKSIG
PublicKeyOut(key) == <<Len(key)>> \o key \o <<OP_CHECKSIG>>

\* Script.buildMultisigOut: OP_m <public key> ... OP_n OP_CHECKMULTISIG
MultisigOut(keys, m) ==
    <<OP_1 + m - 1, 33>> \o keys[1] \o <<33>> \o keys[2] \o <<OP_1 + Len(keys) - 1,
                                                             OP_CHECKMULTISIG>>

\* the previous outputs that are classified, each at its own outputIndex, with the
\* public keys and the threshold that come with them: a pay-to-public-key-hash, a
\* pay-to-public-key and a data output without keys, a pay-to-script-hash and a
\* bare multisig output with two keys and a threshold of 1, 2 or 3, a
\* pay-to-script-hash output without keys and a pay-to-public-key-hash with keys
ClassDescriptors ==
    {[utxo |-> [keys |-> "txId", txId |-> TxA, outputIndex |-> U32(n), script |-> s,
                satoshis |-> 1000000],
      publicKeys |-> p[1], threshold |-> p[2]] :
        n \in {0}, s \in {PublicKeyHashOut(170), PublicKeyOut(PublicKeys[1]),
                          DataOut(<<1, 2>>), ScriptHashOut(187)},
        p \in {<<None, None>>}}
    \cup {[utxo |-> [keys |-> "txId", txId |-> TxA, outputIndex |-> U32(m), script |-> s,
                     satoshis |-> 1000000],
           publicKeys |-> Some(PublicKeys), threshold |-> Some(m)] :
            m \in 1..3, s \in {ScriptHashOut(187), MultisigOut(PublicKeys, 2),
                               PublicKeyHashOut(170)}}

\* the shapes with one rule for from() and fromObject(): pay-to-public-key-hash,
\* pay-to-public-key and unclassified without keys, pay-to-script-hash and bare
\* multisig with keys and threshold
ListedShape(d) ==
    IF d.publicKeys = None THEN ~IsScriptHashOut(d.utxo.script)
    ELSE IsScriptHashOut(d.utxo.script) \/ IsMultisigOut(d.utxo.script)

\* the snapshot's input for a descriptor: what toObject writes of an input that
\* spends the output, with the keys and the threshold
SnapshotInput(d) ==
    [prevTxId |-> d.utxo.txId, outputIndex |-> d.utxo.outputIndex,
     sequenceNumber |-> DEFAULT_SEQNUMBER,
     script |-> [length |-> 0, publicKeyHashIn |-> FALSE],
     output |-> Some([script |-> d.utxo.script, satoshis |-> BNFromNumber(d.utxo.satoshis)]),
     publicKeys |-> d.publicKeys, threshold |-> d.threshold]

\* a snapshot with that input alone and no hash
SnapshotOf(d) ==
    [ToObject(NewTransaction) EXCEPT !.hash = None, !.inputs = <<SnapshotInput(d)>>]

\* the class of the input a call appended, or the error the call threw
Classified(r) == IF r.err # NoError THEN r.err ELSE r.tx.inputs[Len(r.tx.inputs)].kind

CallFromWith ==
    /\ CanCall
    /\ \E d \in ClassDescriptors : Do("from", FromWith(tx, d.utxo, d.publicKeys, d.threshold))

CallFromSnapshot ==
    /\ CanCall
    /\ \E d \in ClassDescriptors : Do("fromObject", FromObject(tx, SnapshotOf(d)))

InitClass ==
    /\ tx = NewTransaction
    /\ last = [op |-> "new", err |-> NoError, ret |-> "this", signed |-> {}]
    /\ calls = 0

NextClass ==
    \/ CallFromWith
    \/ CallFromSnapshot

SpecClass == InitClass /\ [][NextClass]_vars

\* C27: for a pay-to-public-key-hash, a pay-to-public-key and an unclassified
\* previous output, and for a pay-to-script-hash and a bare multisig output with
\* public keys and threshold, fromObject() gives the input the class from() gives it
\* and throws only where from() throws: whenever from() has been called with such an
\* output that no input spent, fromObject() of the snapshot of that input fails only
\* if from() failed and otherwise makes an input of the same class
C27_SameClassification ==
    [][\A d \in ClassDescriptors :
          LET f == FromWith(tx, d.utxo, d.publicKeys, d.threshold)
              o == FromObject(NewTransaction, SnapshotOf(d))
          IN (/\ ListedShape(d)
              /\ last'.op = "from" /\ tx' = f.tx /\ last'.err = f.err
              /\ (f.err = NoError => Len(f.tx.inputs) = Len(tx.inputs) + 1))
             => /\ o.err # NoError => f.err # NoError
                /\ (o.err = NoError /\ f.err = NoError) => Classified(o) = Classified(f)]_vars

\* the inputs after the lock-time loop: an input that had the default sequence number
\* has the one that enables the lock time and is otherwise as it was, every other
\* input is as it was
OnlyDefaultSequencePromoted(before, after) ==
    /\ Len(after) = Len(before)
    /\ \A k \in 1..Len(before) :
          after[k] = IF before[k].sequenceNumber = DEFAULT_SEQNUMBER
                     THEN [before[k] EXCEPT !.sequenceNumber = DEFAULT_LOCKTIME_SEQNUMBER]
                     ELSE before[k]

\* outputs, change tracking, fee settings and signatures are the same in a and b
SameButInputsAndLockTime(a, b) ==
    /\ a.outputs = b.outputs
    /\ a._changeScript = b._changeScript /\ a._changeIndex = b._changeIndex
    /\ a._fee = b._fee /\ a._feePerKb = b._feePerKb
    /\ a.version = b.version
    /\ Signed(a) = Signed(b)

\* C28: a lockUntilDate(v) or lockUntilBlockHeight(h) that returns has set nLockTime
\* to the seconds of v or to h, has given the sequence number that enables the lock
\* time to exactly the inputs that had the default sequence number, and has left the
\* other inputs, the outputs, the change tracking and the signatures as they were.
C28_LockFrame ==
    [][/\ \A v \in LockTimes :
             (/\ last'.op = "lockUntilDate" /\ last'.err = NoError
              /\ LockUntilDate(tx, v).err = NoError /\ tx' = LockUntilDate(tx, v).tx)
             => /\ tx'.nLockTime = v.value
                /\ OnlyDefaultSequencePromoted(tx.inputs, tx'.inputs)
                /\ SameButInputsAndLockTime(tx, tx')
       /\ \A h \in LockNumbers :
             (/\ last'.op = "lockUntilBlockHeight" /\ last'.err = NoError
              /\ LockUntilBlockHeight(tx, h).err = NoError
              /\ tx' = LockUntilBlockHeight(tx, h).tx)
             => /\ tx'.nLockTime = h
                /\ OnlyDefaultSequencePromoted(tx.inputs, tx'.inputs)
                /\ SameButInputsAndLockTime(tx, tx')]_vars

\* lockUntilDate has returned on a transaction with a payment and a change output, a
\* signed input it has promoted and an input with another sequence number that it
\* has left alone
C28_Witness ==
    /\ last.op = "lockUntilDate" /\ last.err = NoError
    /\ tx.nLockTime = 1500000000
    /\ Len(tx.inputs) = 2
    /\ tx.inputs[1].signed /\ tx.inputs[1].sequenceNumber = DEFAULT_LOCKTIME_SEQNUMBER
    /\ tx.inputs[2].sequenceNumber = U32(7)
    /\ Len(tx.outputs) = 2 /\ tx._changeIndex = Some(1)
    /\ last.signed = {tx.inputs[1].id}

\* inputs, outputs and change tracking of a and b are the same
SameListsAndChange(a, b) ==
    /\ a.inputs = b.inputs /\ a.outputs = b.outputs
    /\ a._changeScript = b._changeScript /\ a._changeIndex = b._changeIndex

\* C29: addInput(input, outputScript, satoshis) either throws NeedMoreInfo and leaves
\* inputs, outputs and change tracking as they were, or returns with the input
\* appended, and the input it has appended carries its previous output, whatever of
\* outputScript and satoshis is given or omitted.
C29_AddInputNeedsOutput ==
    [][last'.op = "addInput"
       => \/ last'.err = "NeedMoreInfo" /\ SameListsAndChange(tx, tx')
          \/ /\ last'.err = NoError
             /\ Len(tx'.inputs) = Len(tx.inputs) + 1
             /\ tx'.inputs[Len(tx'.inputs)].output # None]_vars
====
